---- MODULE Spec2Model ----
(***************************************************************************)
(* A model of the session core of the layr8 Go SDK: the Client             *)
(* (client.go), its handler registry (handler.go), the Phoenix channel     *)
(* transport (channel.go) and the DIDComm envelope codec (message.go).     *)
(*                                                                         *)
(* Goroutines are modelled as processes whose steps are the code segments  *)
(* between two synchronisation points (a mutex section, a sync.Map call,   *)
(* a channel operation, a frame write).                                    *)
(***************************************************************************)
EXTENDS Integers, Sequences, FiniteSets, TLC

\* ------------------------------------------------------------------ bounds
\* Number of caller goroutines, each making one Send or Request call.
NReq == 2
\* Number of Connect calls the application makes.
MaxConnects == 2
\* Number of Handle calls the application makes.
MaxHandle == 2
\* Number of "message" frames the broker delivers.
MaxInbound == 2
\* Number of Ack calls the application makes on one inbound message.
MaxAckCalls == 2
\* Number of Close calls the application makes.
MaxCloses == 3
\* Number of disconnect notifications followed.
MaxDisconnects == 2
MaxBackoffCalls == 9
MaxBeats == 2

Reqs == 1..NReq

\* ---------------------------------------------------------------- strings
\* A message type URI is the sequence of its "/"-separated segments.
PRType == <<"https:", "", "didcomm.org", "report-problem", "2.0", "problem-report">>
ReqType == <<"https:", "", "ex", "echo", "1.0", "request">>
RespType == <<"https:", "", "ex", "echo", "1.0", "response">>
MsgTypes == {ReqType, RespType, PRType}

PRCode == "e.p.xfer.cant-process"

\* Identities: the configured one (or none), the one the broker mints, a peer.
ConfigDIDs == {"", "did:me"}
BrokerDIDs == {"", "did:eph"}
PeerDID == "did:peer"

\* Sentinel and other error values (errors.go).
ErrNotConnected == "ErrNotConnected"
ErrAlreadyConnected == "ErrAlreadyConnected"
ErrClientClosed == "ErrClientClosed"

\* ----------------------------------------------------------------- bodies
\* A body is a Go value (Message.Body) or raw JSON (Message.bodyRaw, the
\* "body" member on the wire).  k: "nil" (no value / member absent),
\* "object" (a JSON object, of which only the members code and comment are
\* kept), "scalar" (JSON that is not an object), "unencodable" (a Go value
\* json.Marshal rejects).
Body(k, code, comment) == [k |-> k, code |-> code, comment |-> comment]
NilBody == Body("nil", "", "")
EmptyObj == Body("object", "", "")
ScalarBody == Body("scalar", "", "")
BadValue == Body("unencodable", "", "")

\* A Message (message.go): the exported fields and bodyRaw.
Msg(id, type, from, to, thid, pthid, body, raw) ==
    [id |-> id, type |-> type, from |-> from, to |-> to, thid |-> thid,
     pthid |-> pthid, body |-> body, bodyRaw |-> raw]
NoMsg == Msg("", <<>>, "", <<>>, "", "", NilBody, NilBody)

\* uuid.New().String(): a fresh identifier, distinct for every minting site
\* and distinct from every identifier a caller or the broker supplies.
generateID(site) == "uuid-" \o site

VARIABLES
    \* Client (client.go)
    cfgDID,        \* cfg.AgentDID
    connected,     \* c.connected
    closed,        \* c.closed
    transport,     \* c.transport: "nil" or "ch"
    agentDID,      \* c.agentDID
    registry,      \* c.registry.handlers: type -> entry, NoEntry when absent
    pending,       \* c.pending: thread-id -> owner of the stored channel, 0 when absent
    \* phoenixChannel (channel.go) created by the Connect call in progress
    conn,          \* c.conn: "nil", "open", "closed" (conn.Close()), "dropped"
    chDone,        \* c.done is closed
    refCounter,    \* c.refCounter
    joinRef,       \* c.joinRef (0: unset)
    joinReply,     \* c.pendingJoin: NoJoinCh, EmptyJoinCh or the buffered reply
    assignedDIDVal,\* c.assignedDIDVal
    topic,         \* c.topic
    hbRunning,     \* the heartbeat goroutine is running
    wire,          \* frames written to the carrier, in write order
    \* the application's Connect and Handle calls
    cpc,           \* the Connect call: "idle", "dial", "join", "commit"
    cres,          \* what the last Connect call returned ("" before any)
    cprotocols,    \* protocols snapshot of the Connect call in progress
    nConnects,     \* Connect calls made
    hcall,         \* the last Handle call: its arguments and the error it returned
    nHandles,      \* Handle calls made
    \* caller goroutines in Send / Request
    rq,            \* per caller: pc, operation, the caller's envelope, context, result
    respCh,        \* per caller: the buffer of its respCh (capacity 1)
    \* the inbound side
    nInbound,      \* "message" frames delivered by the broker
    tasks,         \* handler goroutines started by handleInboundMessage
    errs,          \* SDKErrors passed to onError, in order
    crashed,       \* an unrecovered panic ended the process
    \* the reader goroutines and the application's callbacks
    reader,        \* per channel made by a Connect call: "none", "running", "exited"
    disconnects,   \* the errors passed to the disconnect callback, in order
    nCloses,       \* Close calls made
    chMu,          \* the holder of the channel's c.mu ("" when free)
    wr,            \* the goroutines that write frames: where each is in send
                   \* (pc) and the ref nextRef returned to it
    bo,            \* a backoff: initial, max and current delay, in seconds
    boLog,         \* the calls made on it: next with the delay returned, reset
    closeRes       \* what the last Close call returned ("" before any): "nil", or
                   \* "conn.Close" for the result of the carrier's Close

lifeVars == <<cfgDID, connected, closed, transport, agentDID, registry>>
chanVars == <<conn, chDone, refCounter, joinRef, joinReply, assignedDIDVal, topic, hbRunning>>
callVars == <<cpc, cres, cprotocols, nConnects, hcall, nHandles>>
reqVars == <<rq, respCh>>
inVars == <<nInbound, tasks, errs, crashed>>
rdVars == <<reader, disconnects, nCloses, closeRes>>
sessVars == <<lifeVars, chanVars, callVars, pending, wire, reqVars, inVars>>
boVars == <<bo, boLog>>
wrVars == <<chMu, wr>>
auxVars == <<boVars, wrVars>>
vars == <<sessVars, rdVars, auxVars>>

\* ------------------------------------------------------- handler registry
\* Handler functions the application may register, named by what they do:
\* return a response envelope (see handlerResult), an error, or (nil, nil).
ReplyFns == {"reply-bare", "reply-full", "reply-from", "reply-to-thid", "reply-unencodable"}
Fns == ReplyFns \cup {"fail", "sink", "panic"}
NoEntry == [fn |-> "", manualAck |-> FALSE]
Entry(fn, manual) == [fn |-> fn, manualAck |-> manual]

\* A lookup that falls back to any registered entry when the type has none.
lookupAny(reg, msgType) ==
    IF msgType \in DOMAIN reg /\ reg[msgType] # NoEntry
    THEN [entry |-> reg[msgType], ok |-> TRUE]
    ELSE IF \E t \in DOMAIN reg : reg[t] # NoEntry
    THEN [entry |-> reg[CHOOSE t \in DOMAIN reg : reg[t] # NoEntry], ok |-> TRUE]
    ELSE [entry |-> NoEntry, ok |-> FALSE]

\* handlerRegistry.lookup: the entry and whether it exists.
lookup(reg, msgType) ==
    [entry |-> IF msgType \in DOMAIN reg THEN reg[msgType] ELSE NoEntry,
     ok |-> msgType \in DOMAIN reg /\ reg[msgType] # NoEntry]

\* register without the exists check: a second registration replaces the first.
registerOverwrite(reg, msgType, fn, manual) ==
    [reg |-> [reg EXCEPT ![msgType] = Entry(fn, manual)], err |-> ""]

\* handlerRegistry.register: the registry afterwards and the error ("" for nil).
register(reg, msgType, fn, manual) ==
    IF lookup(reg, msgType).ok
    THEN [reg |-> reg, err |-> "already-registered"]
    ELSE [reg |-> [reg EXCEPT ![msgType] = Entry(fn, manual)], err |-> ""]

\* deriveProtocol: the type without its last "/"-separated segment.
deriveProtocol(msgType) ==
    IF Len(msgType) <= 1 THEN msgType ELSE SubSeq(msgType, 1, Len(msgType) - 1)

\* handlerRegistry.protocols: the distinct protocols of the registered types.
protocols(reg) == {deriveProtocol(t) : t \in {u \in DOMAIN reg : reg[u] # NoEntry}}

\* ------------------------------------------------------ channel transport
\* c.pendingJoin: not made yet, made and empty, or holding the join reply.
NoJoinCh == [status |-> "nil", did |-> "", reason |-> ""]
EmptyJoinCh == [status |-> "empty", did |-> "", reason |-> ""]

Frame(event, ref, jref, payload, ids, protos, by) ==
    [event |-> event, ref |-> ref, joinRef |-> jref, topic |-> topic,
     ch |-> nConnects, msg |-> payload, ids |-> ids, protocols |-> protos, by |-> by]

\* writeMsg: the error it returns ("" for nil) on the carrier as it is.
writeErr == IF conn = "nil" THEN ErrNotConnected
            ELSE IF conn = "open" THEN "" ELSE "write-error"

\* A send that writes its frame again after the first write.
chSendTwice(event, payload, ids, by) ==
    /\ refCounter' = refCounter + 1
    /\ wire' = IF writeErr = ""
               THEN wire \o << Frame(event, refCounter + 1, 0, payload, ids, {}, by),
                               Frame(event, refCounter + 1, 0, payload, ids, {}, by) >>
               ELSE wire

\* nextRef followed by writeMsg of a frame carrying that ref: the counter
\* advances even when the write fails.
chSend(event, payload, ids, by) ==
    /\ refCounter' = refCounter + 1
    /\ wire' = IF writeErr = ""
               THEN Append(wire, Frame(event, refCounter + 1, 0, payload, ids, {}, by))
               ELSE wire

\* ------------------------------------------- writers of one channel's carrier
\* The goroutines that write frames through phoenixChannel.send or writeMsg:
\* a caller in Send or Request, the reader sending an ack, a handler task
\* sending its response or problem report, the heartbeat, Close's leave.
Writers == {"call", "reader", "task", "heartbeat", "close"}

WriterEvent(w) ==
    CASE w = "reader" -> "ack"
      [] w = "heartbeat" -> "heartbeat"
      [] w = "close" -> "phx_leave"
      [] OTHER -> "message"

IdleWriter == [pc |-> "idle", ref |-> 0]

\* A counter step that hands out the current value again.
nextRefStale(counter) == counter

\* nextRef: c.refCounter++ under c.mu; the new value is the ref.
nextRef(counter) == counter + 1

\* A lock that is handed to every goroutine that asks.
muFreeAlways == TRUE

\* c.mu.Lock() returns only when no goroutine holds c.mu.
muFree == chMu = ""

\* nextRef as called by writer w: lock, increment, unlock.
WriterNextRef(w) ==
    /\ ~crashed
    /\ conn = "open" /\ transport # "nil"
    /\ wr[w].pc = "idle"
    /\ muFree
    /\ refCounter' = nextRef(refCounter)
    /\ wr' = [wr EXCEPT ![w] = [pc |-> "gotRef", ref |-> nextRef(refCounter)]]
    /\ UNCHANGED <<lifeVars, conn, chDone, joinRef, joinReply, assignedDIDVal, topic,
                   hbRunning, callVars, pending, wire, reqVars, inVars, rdVars, boVars, chMu>>

\* writeMsg entered by writer w: c.mu.Lock() returned.
WriterLock(w) ==
    /\ ~crashed
    /\ wr[w].pc = "gotRef"
    /\ muFree
    /\ chMu' = w
    /\ wr' = [wr EXCEPT ![w].pc = "writing"]
    /\ UNCHANGED <<sessVars, rdVars, boVars>>

\* conn.WriteMessage of writer w returns and the deferred c.mu.Unlock() runs.
WriterWrite(w) ==
    /\ ~crashed
    /\ wr[w].pc = "writing"
    /\ wire' = IF writeErr = ""
               THEN Append(wire, [Frame(WriterEvent(w), wr[w].ref, 0, NoMsg, <<>>, {}, w)
                                    EXCEPT !.topic = IF w = "heartbeat" THEN "phoenix" ELSE topic])
               ELSE wire
    /\ chMu' = IF chMu = w THEN "" ELSE chMu
    /\ wr' = [wr EXCEPT ![w].pc = "done"]
    /\ UNCHANGED <<lifeVars, chanVars, callVars, pending, reqVars, inVars, rdVars, boVars>>

\* ------------------------------------------------------------ Client.Handle
Handle(msgType, fn, manual) ==
    /\ ~crashed
    /\ nHandles < MaxHandle
    /\ nHandles' = nHandles + 1
    /\ LET r == IF connected
                THEN [reg |-> registry, err |-> ErrAlreadyConnected]
                ELSE register(registry, msgType, fn, manual)
       IN /\ registry' = r.reg
          /\ hcall' = [type |-> msgType, fn |-> fn, manualAck |-> manual, err |-> r.err]
    /\ UNCHANGED <<cfgDID, connected, closed, transport, agentDID, chanVars,
                   cpc, cres, cprotocols, nConnects, pending, wire, reqVars, inVars>>
    /\ UNCHANGED <<rdVars, auxVars>>

\* ----------------------------------------------------------- Client.Connect
\* The state check under c.mu, then the protocols snapshot.
ConnBegin ==
    /\ ~crashed
    /\ cpc = "idle"
    /\ nConnects < MaxConnects
    /\ nConnects' = nConnects + 1
    /\ IF connected THEN /\ cres' = ErrAlreadyConnected
                         /\ UNCHANGED <<cpc, cprotocols>>
       ELSE IF closed THEN /\ cres' = ErrClientClosed
                           /\ UNCHANGED <<cpc, cprotocols>>
       ELSE /\ cpc' = "dial"
            /\ cres' = "in-progress"
            /\ cprotocols' = protocols(registry)
    /\ UNCHANGED <<lifeVars, chanVars, hcall, nHandles, pending, wire, reqVars, inVars>>
    /\ UNCHANGED <<rdVars, auxVars>>

\* newPhoenixChannel: the topic of the channel, formatted once from the
\* identity of the configuration.
channelTopic(did) == "plugins:" \o did

\* newPhoenixChannel, phoenixChannel.connect up to the written join frame.
ConnDial(dialOk) ==
    /\ ~crashed
    /\ cpc = "dial"
    /\ topic' = channelTopic(cfgDID)
    /\ chDone' = FALSE
    /\ assignedDIDVal' = ""
    /\ hbRunning' = FALSE
    /\ IF dialOk
       THEN /\ conn' = "open"
            /\ refCounter' = 1
            /\ joinRef' = 1
            /\ joinReply' = EmptyJoinCh
            /\ wire' = Append(wire, [Frame("phx_join", 1, 1, NoMsg, <<>>, cprotocols, "connect")
                                       EXCEPT !.topic = channelTopic(cfgDID)])
            /\ cpc' = "join"
            /\ UNCHANGED cres
       ELSE /\ conn' = "nil"
            /\ refCounter' = 0
            /\ joinRef' = 0
            /\ joinReply' = NoJoinCh
            /\ cres' = "ConnectionError"
            /\ cpc' = "idle"
            /\ UNCHANGED wire
    /\ UNCHANGED <<lifeVars, cprotocols, nConnects, hcall, nHandles, pending, reqVars, inVars>>
    /\ reader' = IF dialOk THEN [reader EXCEPT ![nConnects] = "running"] ELSE reader
    /\ UNCHANGED <<disconnects, nCloses, closeRes, auxVars>>

\* The broker's phx_reply to the join, put into pendingJoin by handleInbound.
JoinReplies ==
    {[status |-> "ok", did |-> d, reason |-> ""] : d \in BrokerDIDs}
    \cup {[status |-> "error", did |-> "", reason |-> r] : r \in {"", "protocols_already_bound"}}

BrokerJoinReply(reply) ==
    /\ ~crashed
    /\ conn = "open"
    /\ joinReply = EmptyJoinCh
    /\ joinReply' = reply
    /\ UNCHANGED <<lifeVars, conn, chDone, refCounter, joinRef, assignedDIDVal, topic,
                   hbRunning, callVars, pending, wire, reqVars, inVars>>
    /\ UNCHANGED <<rdVars, auxVars>>

\* A join error that never carries the broker's reason.
joinErrorNoReason(reply) == "ConnectionError: join rejected: " \o reply.status

\* join on a reply whose status is not ok: a ConnectionError whose Reason is
\* the broker's response.reason, or "join rejected: <status>" without one.
joinError(reply) ==
    IF reply.reason # "" THEN "ConnectionError: " \o reply.reason
    ELSE "ConnectionError: join rejected: " \o reply.status

\* An identity resolution that adopts whatever the broker assigned.
resolveDIDAssigned(current, assigned) ==
    IF assigned # "" THEN assigned ELSE current

\* Connect after ch.connect succeeded: the broker-assigned identity is
\* adopted only when the client has none.
resolveDID(current, assigned) ==
    IF current = "" /\ assigned # "" THEN assigned ELSE current

\* phoenixChannel.join after the reply arrived, and the rest of connect.
ConnJoined ==
    /\ ~crashed
    /\ cpc = "join"
    /\ joinReply \notin {NoJoinCh, EmptyJoinCh}
    /\ IF joinReply.status # "ok"
       THEN /\ conn' = "closed"
            /\ cres' = joinError(joinReply)
            /\ cpc' = "idle"
            /\ UNCHANGED <<assignedDIDVal, hbRunning, agentDID>>
       ELSE /\ assignedDIDVal' = IF joinReply.did # "" THEN joinReply.did ELSE assignedDIDVal
            /\ hbRunning' = TRUE
            /\ agentDID' = resolveDID(agentDID, joinReply.did)
            /\ cpc' = "commit"
            /\ UNCHANGED <<conn, cres>>
    /\ UNCHANGED <<cfgDID, connected, closed, transport, registry, chDone, refCounter,
                   joinRef, joinReply, topic, cprotocols, nConnects, hcall, nHandles,
                   pending, wire, reqVars, inVars>>
    /\ UNCHANGED <<rdVars, auxVars>>

\* The Connect context ends while join waits for the reply.
ConnCtxDone ==
    /\ ~crashed
    /\ cpc = "join"
    /\ conn' = "closed"
    /\ cres' = "context-error"
    /\ cpc' = "idle"
    /\ UNCHANGED <<lifeVars, chDone, refCounter, joinRef, joinReply, assignedDIDVal, topic,
                   hbRunning, cprotocols, nConnects, hcall, nHandles, pending, wire, reqVars, inVars>>
    /\ UNCHANGED <<rdVars, auxVars>>

\* The final section of Connect under c.mu.
ConnCommit ==
    /\ ~crashed
    /\ cpc = "commit"
    /\ transport' = "ch"
    /\ connected' = TRUE
    /\ cres' = "nil"
    /\ cpc' = "idle"
    /\ UNCHANGED <<cfgDID, closed, agentDID, registry, chanVars, cprotocols, nConnects,
                   hcall, nHandles, pending, wire, reqVars, inVars>>
    /\ UNCHANGED <<rdVars, auxVars>>

\* ------------------------------------------------------------- Client.Close
\* Close, with phoenixChannel.close when a transport is set.
Close ==
    /\ ~crashed
    /\ ~closed
    /\ closed' = TRUE
    /\ connected' = FALSE
    /\ IF transport # "nil" /\ ~chDone
       THEN /\ chDone' = TRUE
            /\ hbRunning' = FALSE
            /\ IF conn # "nil"
               THEN /\ chSend("phx_leave", NoMsg, <<>>, "close")
                    /\ conn' = "closed"
               ELSE UNCHANGED <<refCounter, wire, conn>>
       ELSE UNCHANGED <<chDone, hbRunning, refCounter, wire, conn>>
    /\ UNCHANGED <<cfgDID, transport, agentDID, registry, joinRef, joinReply,
                   assignedDIDVal, topic, callVars, pending, reqVars, inVars>>
    /\ nCloses' = nCloses + 1
    /\ closeRes' = IF transport # "nil" /\ ~chDone /\ conn # "nil" THEN "conn.Close" ELSE "nil"
    /\ UNCHANGED <<reader, disconnects, auxVars>>

\* A Close that runs the channel's close again on a closed client.
CloseAgainLeave ==
    /\ ~crashed
    /\ closed
    /\ nCloses < MaxCloses
    /\ nCloses' = nCloses + 1
    /\ closeRes' = "conn.Close"
    /\ chSend("phx_leave", NoMsg, <<>>, "close")
    /\ UNCHANGED <<lifeVars, conn, chDone, joinRef, joinReply, assignedDIDVal, topic,
                   hbRunning, callVars, pending, reqVars, inVars, reader, disconnects, auxVars>>

\* Close on a closed client: c.closed is set, so it returns nil before it
\* reaches the transport.
CloseAgain ==
    /\ ~crashed
    /\ closed
    /\ nCloses < MaxCloses
    /\ nCloses' = nCloses + 1
    /\ closeRes' = "nil"
    /\ UNCHANGED <<sessVars, reader, disconnects, auxVars>>

\* The carrier drops: the reader's ReadMessage fails and readLoop returns.
NetDrop ==
    /\ ~crashed
    /\ conn = "open"
    /\ conn' = "dropped"
    /\ UNCHANGED <<lifeVars, chDone, refCounter, joinRef, joinReply, assignedDIDVal, topic,
                   hbRunning, callVars, pending, wire, reqVars, inVars>>
    /\ UNCHANGED <<rdVars, auxVars>>

\* ------------------------------------------------- phoenixChannel.readLoop
\* The channel of the latest Connect call that dialled (0: none yet).  A
\* Connect call dials only while the client is neither connected nor closed,
\* so every earlier channel is one whose connect failed and closed its carrier.
curCh ==
    CHOOSE c \in 0..MaxConnects :
        /\ c = 0 \/ reader[c] # "none"
        /\ \A d \in 1..MaxConnects : reader[d] # "none" => d <= c

\* An invocation of the disconnect callback by the reader of channel c.
Disconnect(c, err) == [ch |-> c, err |-> err]

\* ReadMessage of the reader of channel c fails, the carrier being closed or
\* dropped: the reader returns, through the disconnect callback unless
\* c.done is closed.
ReadFail(c) ==
    /\ ~crashed
    /\ reader[c] = "running"
    /\ c < curCh \/ conn \in {"closed", "dropped"}
    /\ reader' = [reader EXCEPT ![c] = "exited"]
    /\ disconnects' = IF c < curCh \/ ~chDone
                      THEN Append(disconnects, Disconnect(c, "read-error"))
                      ELSE disconnects
    /\ UNCHANGED <<sessVars, nCloses, closeRes, auxVars>>

\* handleInbound for a phx_error or phx_close frame of the broker.
BrokerEvent(ev) ==
    /\ ~crashed
    /\ conn = "open"
    /\ curCh # 0
    /\ Len(disconnects) < MaxDisconnects
    /\ disconnects' = Append(disconnects, Disconnect(curCh, "channel " \o ev))
    /\ UNCHANGED <<sessVars, reader, nCloses, closeRes, auxVars>>

\* --------------------------------------------- phoenixChannel.heartbeatLoop
\* The heartbeat frames written so far.
Beats == {i \in DOMAIN wire : wire[i].event = "heartbeat"}

\* The ticker of heartbeatLoop fires: nextRef, then writeMsg of a heartbeat
\* frame on topic "phoenix"; the loop returns when the write fails.
Heartbeat ==
    /\ ~crashed
    /\ hbRunning
    /\ Cardinality(Beats) < MaxBeats
    /\ refCounter' = refCounter + 1
    /\ wire' = IF writeErr = ""
               THEN Append(wire, [Frame("heartbeat", refCounter + 1, 0, NoMsg, <<>>, {},
                                        "heartbeat") EXCEPT !.topic = "phoenix"])
               ELSE wire
    /\ hbRunning' = (writeErr = "")
    /\ UNCHANGED <<lifeVars, conn, chDone, joinRef, joinReply, assignedDIDVal, topic,
                   callVars, pending, reqVars, inVars, rdVars, auxVars>>

\* ----------------------------------------------------------- envelope codec
\* marshalDIDComm: the body member is the encoded Body, else bodyRaw, else {}.
\* The result is the JSON envelope (thid and pthid absent when empty, read
\* back as empty) or the marshal error.
marshalDIDComm(m) ==
    IF m.body.k = "unencodable"
    THEN [err |-> "marshal body", env |-> NoMsg]
    ELSE [err |-> "",
          env |-> Msg(m.id, m.type, m.from, m.to, m.thid, m.pthid, NilBody,
                      IF m.body.k # "nil" THEN m.body
                      ELSE IF m.bodyRaw.k # "nil" THEN m.bodyRaw
                      ELSE EmptyObj)]

\* An inbound payload: bytes that are not JSON ("garbage"), JSON without a
\* plaintext member ("no-plaintext"), or context + plaintext ("ok") with the
\* plaintext's members in pt (pt.bodyRaw is the "body" member).
Payload(k, pt) == [k |-> k, pt |-> pt]

\* A parse that accepts JSON without a plaintext object as an empty message.
parseDIDCommLenient(p) ==
    IF p.k = "garbage" THEN [err |-> "parse envelope", msg |-> NoMsg]
    ELSE [err |-> "",
          msg |-> Msg(p.pt.id, p.pt.type, p.pt.from, p.pt.to, p.pt.thid, p.pt.pthid,
                      p.pt.bodyRaw, p.pt.bodyRaw)]

\* parseDIDComm: the parse error, or the Message with Body decoded
\* generically and bodyRaw kept.
parseDIDComm(p) ==
    IF p.k = "garbage" THEN [err |-> "parse envelope", msg |-> NoMsg]
    ELSE IF p.k = "no-plaintext" THEN [err |-> "parse plaintext", msg |-> NoMsg]
    ELSE [err |-> "",
          msg |-> Msg(p.pt.id, p.pt.type, p.pt.from, p.pt.to, p.pt.thid, p.pt.pthid,
                      p.pt.bodyRaw, p.pt.bodyRaw)]

\* Message.UnmarshalBody into a ProblemReportError: fails without a body and
\* on JSON that is not an object; absent members stay empty.
UnmarshalBody(m) ==
    IF m.bodyRaw.k = "nil" THEN [err |-> "message has no body", code |-> "", comment |-> ""]
    ELSE IF m.bodyRaw.k # "object" THEN [err |-> "json: cannot unmarshal", code |-> "", comment |-> ""]
    ELSE [err |-> "", code |-> m.bodyRaw.code, comment |-> m.bodyRaw.comment]

\* --------------------------------------------------- Client.Send / Request
Result(kind, env, code, comment) ==
    [kind |-> kind, env |-> env, code |-> code, comment |-> comment]
NoResult == Result("", NoMsg, "", "")
\* A caller: where it is in Send / Request (pc), the operation, the envelope
\* it passed as it is now (msg) and as it was passed (orig), its context
\* ("live", "deadline", "canceled"), what the call returned (res), and
\* whether an envelope was put into its channel while the context was live;
\* ref is the ref nextRef returned to a call that has not yet entered
\* writeMsg (0 otherwise).
IdleCall == [pc |-> "idle", op |-> "", msg |-> NoMsg, orig |-> NoMsg, ctx |-> "live",
             res |-> NoResult, early |-> FALSE, ref |-> 0]

\* A lookup that ignores the key and takes any stored slot.
LoadAny(tbl, thid) == IF DOMAIN tbl = {} THEN 0 ELSE tbl[CHOOSE t \in DOMAIN tbl : TRUE]

\* A lookup that never finds a slot.
LoadNone(tbl, thid) == 0

\* The slot stored under a thread-id, 0 when the key is absent.
Load(tbl, thid) == IF thid \in DOMAIN tbl THEN tbl[thid] ELSE 0
\* sync.Map.Store
Store(tbl, thid, owner) ==
    [t \in DOMAIN tbl \cup {thid} |-> IF t = thid THEN owner ELSE tbl[t]]
\* A Delete that removes nothing.
DeleteNothing(tbl, thid) == tbl

\* sync.Map.Delete
Delete(tbl, thid) == [t \in DOMAIN tbl \ {thid} |-> tbl[t]]

\* The fields Send and Request fill in before the message is sent.
fillRequest(r, op, m, pthid) ==
    [m EXCEPT !.id = IF m.id = "" THEN generateID("id-" \o ToString(r)) ELSE m.id,
              !.from = IF m.from = "" THEN agentDID ELSE m.from,
              !.thid = IF op = "request" /\ m.thid = ""
                       THEN generateID("thid-" \o ToString(r)) ELSE m.thid,
              !.pthid = IF op = "request" /\ pthid # "" THEN pthid ELSE m.pthid]

\* Send / Request up to the point where the message is handed to sendMessage:
\* the connected check under c.mu, the field fill and, for Request, the store
\* of the response channel.
CallBegin(r, op, m, pthid) ==
    /\ ~crashed
    /\ rq[r].pc = "idle"
    /\ IF ~connected
       THEN /\ rq' = [rq EXCEPT ![r] = [IdleCall EXCEPT !.pc = "done", !.op = op, !.msg = m,
                                          !.orig = m,
                                          !.res = Result(ErrNotConnected, NoMsg, "", "")]]
            /\ UNCHANGED pending
       ELSE LET f == fillRequest(r, op, m, pthid)
            IN /\ rq' = [rq EXCEPT ![r] = [IdleCall EXCEPT !.pc = "send", !.op = op,
                                             !.msg = f, !.orig = m]]
               /\ pending' = IF op = "request" THEN Store(pending, f.thid, r) ELSE pending
    /\ UNCHANGED <<lifeVars, chanVars, callVars, wire, respCh, inVars>>
    /\ UNCHANGED <<rdVars, auxVars>>

\* Client.sendMessage: fill id and from again, marshal, transport.send.
\* Request returns a send error through its deferred Delete; Send returns.
CallSend(r) ==
    /\ ~crashed
    /\ rq[r].pc = "send"
    /\ LET m0 == rq[r].msg
           m == [m0 EXCEPT !.id = IF m0.id = "" THEN generateID("sid-" \o ToString(r)) ELSE m0.id,
                           !.from = IF m0.from = "" THEN agentDID ELSE m0.from]
           enc == marshalDIDComm(m)
           err == IF enc.err # "" THEN enc.err ELSE writeErr
       IN /\ IF enc.err = ""
             THEN chSend("message", enc.env, <<>>, "call-" \o ToString(r))
             ELSE UNCHANGED <<refCounter, wire>>
          /\ rq' = [rq EXCEPT ![r].msg = m,
                              ![r].pc = IF rq[r].op = "send" THEN "done"
                                        ELSE IF err # "" THEN "ret" ELSE "wait",
                              ![r].res = IF err # "" THEN Result("send-error", NoMsg, "", "")
                                         ELSE IF rq[r].op = "send" THEN Result("nil", NoMsg, "", "")
                                         ELSE NoResult]
    /\ UNCHANGED <<lifeVars, conn, chDone, joinRef, joinReply, assignedDIDVal, topic,
                   hbRunning, callVars, pending, respCh, inVars>>
    /\ UNCHANGED <<rdVars, auxVars>>

\* Client.sendMessage up to the end of nextRef: fill, marshal, and in
\* phoenixChannel.send the ref taken under c.mu, which nextRef releases on
\* return. A message that cannot be marshalled returns before any ref.
SendNextRef(r) ==
    /\ ~crashed
    /\ rq[r].pc = "send"
    /\ LET m0 == rq[r].msg
           m == [m0 EXCEPT !.id = IF m0.id = "" THEN generateID("sid-" \o ToString(r)) ELSE m0.id,
                           !.from = IF m0.from = "" THEN agentDID ELSE m0.from]
           enc == marshalDIDComm(m)
       IN IF enc.err = ""
          THEN /\ refCounter' = refCounter + 1
               /\ rq' = [rq EXCEPT ![r].msg = m, ![r].pc = "write", ![r].ref = refCounter + 1]
          ELSE /\ rq' = [rq EXCEPT ![r].msg = m,
                                   ![r].pc = IF rq[r].op = "send" THEN "done" ELSE "ret",
                                   ![r].res = Result("send-error", NoMsg, "", "")]
               /\ UNCHANGED refCounter
    /\ UNCHANGED <<lifeVars, conn, chDone, joinRef, joinReply, assignedDIDVal, topic,
                   hbRunning, callVars, pending, wire, respCh, inVars, rdVars, auxVars>>

\* writeMsg of the frame built in phoenixChannel.send: c.mu taken again, the
\* frame written with the ref nextRef returned earlier.
SendWriteMsg(r) ==
    /\ ~crashed
    /\ rq[r].pc = "write"
    /\ wire' = IF writeErr = ""
               THEN Append(wire, Frame("message", rq[r].ref, 0, marshalDIDComm(rq[r].msg).env,
                                       <<>>, {}, "call-" \o ToString(r)))
               ELSE wire
    /\ rq' = [rq EXCEPT ![r].ref = 0,
                        ![r].pc = IF rq[r].op = "send" THEN "done"
                                  ELSE IF writeErr # "" THEN "ret" ELSE "wait",
                        ![r].res = IF writeErr # "" THEN Result("send-error", NoMsg, "", "")
                                   ELSE IF rq[r].op = "send" THEN Result("nil", NoMsg, "", "")
                                   ELSE NoResult]
    /\ UNCHANGED <<lifeVars, chanVars, callVars, pending, respCh, inVars, rdVars, auxVars>>

\* Request without the problem-report check: every envelope is returned.
requestResultNoCheck(resp) == Result("response", resp, "", "")

\* What Request returns for the envelope it received from its channel.
requestResult(resp) ==
    IF resp.type = PRType
    THEN LET prob == UnmarshalBody(resp)
         IN IF prob.err # "" THEN Result("parse-problem-error", NoMsg, "", "")
            ELSE Result("problem", NoMsg, prob.code, prob.comment)
    ELSE Result("response", resp, "", "")

\* A Request that waits for the response only.
CallWaitNoCtx(r, case) ==
    /\ ~crashed
    /\ rq[r].pc = "wait"
    /\ respCh[r] # <<>>
    /\ rq' = [rq EXCEPT ![r].pc = "ret", ![r].res = requestResult(Head(respCh[r]))]
    /\ respCh' = [respCh EXCEPT ![r] = Tail(respCh[r])]
    /\ UNCHANGED <<lifeVars, chanVars, callVars, pending, wire, inVars>>
    /\ UNCHANGED <<rdVars, auxVars>>

\* A select that also wakes up when the client has been closed.
CallWaitClosed(r, case) ==
    /\ ~crashed
    /\ rq[r].pc = "wait"
    /\ IF case = "resp"
       THEN /\ respCh[r] # <<>>
            /\ rq' = [rq EXCEPT ![r].pc = "ret", ![r].res = requestResult(Head(respCh[r]))]
            /\ respCh' = [respCh EXCEPT ![r] = Tail(respCh[r])]
       ELSE /\ IF closed THEN TRUE ELSE rq[r].ctx # "live"
            /\ rq' = [rq EXCEPT ![r].pc = "ret", ![r].res = Result(rq[r].ctx, NoMsg, "", "")]
            /\ UNCHANGED respCh
    /\ UNCHANGED <<lifeVars, chanVars, callVars, pending, wire, inVars>>
    /\ UNCHANGED <<rdVars, auxVars>>

\* The select of Request: a buffered response or the ended context; when both
\* are ready either case may be taken.
CallWait(r, case) ==
    /\ ~crashed
    /\ rq[r].pc = "wait"
    /\ IF case = "resp"
       THEN /\ respCh[r] # <<>>
            /\ rq' = [rq EXCEPT ![r].pc = "ret", ![r].res = requestResult(Head(respCh[r]))]
            /\ respCh' = [respCh EXCEPT ![r] = Tail(respCh[r])]
       ELSE /\ rq[r].ctx # "live"
            /\ rq' = [rq EXCEPT ![r].pc = "ret", ![r].res = Result(rq[r].ctx, NoMsg, "", "")]
            /\ UNCHANGED respCh
    /\ UNCHANGED <<lifeVars, chanVars, callVars, pending, wire, inVars>>
    /\ UNCHANGED <<rdVars, auxVars>>

\* The deferred c.pending.Delete(msg.ThreadID) as Request returns.
CallReturn(r) ==
    /\ ~crashed
    /\ rq[r].pc = "ret"
    /\ pending' = Delete(pending, rq[r].msg.thid)
    /\ rq' = [rq EXCEPT ![r].pc = "done"]
    /\ UNCHANGED <<lifeVars, chanVars, callVars, wire, respCh, inVars>>
    /\ UNCHANGED <<rdVars, auxVars>>

\* The caller's context ends: its deadline passes or it is cancelled.  Request
\* reads the context only in its select, so an end before that is seen there.
CtxEnd(r, how) ==
    /\ ~crashed
    /\ rq[r].op = "request"
    /\ rq[r].pc = "wait"
    /\ rq[r].ctx = "live"
    /\ rq' = [rq EXCEPT ![r].ctx = how]
    /\ UNCHANGED <<lifeVars, chanVars, callVars, pending, wire, respCh, inVars>>
    /\ UNCHANGED <<rdVars, auxVars>>

\* ------------------------------------------------- handleInboundMessage
\* An SDKError passed to onError: Kind, MessageID, Type, From, Raw and Cause.
SDKError(kind, m, raw, cause) ==
    [kind |-> kind, id |-> m.id, type |-> m.type, from |-> m.from, raw |-> raw, cause |-> cause]
NoRaw == Payload("nil", NoMsg)
\* A handler goroutine: the inbound message, the entry it runs, and once it
\* has returned what the handler returned (ret: "resp", "err", "nil"; resp:
\* the envelope as the handler returned it) and the error of the send.
Task(m, entry) == [msg |-> m, fn |-> entry.fn, manualAck |-> entry.manualAck,
                   st |-> "running", ret |-> "", resp |-> NoMsg, sendErr |-> "",
                   ackCalls |-> 0]

\* An inbound path that acks for every handler, whatever its ack mode.
autoAckAlways(entry) == TRUE

\* Whether handleInboundMessage acks before it starts the handler.
\* A reader that never acknowledges on its own.
autoAckNever(entry) == FALSE

autoAck(entry) == ~entry.manualAck

\* A reader that runs each handler itself and reads again when it returned.
readerAtReadInline == \A k \in DOMAIN tasks : tasks[k].st # "running"

\* The reader is in ReadMessage: handleInboundMessage starts the handler
\* with a go statement and returns to readLoop without waiting for it.
readerAtRead == TRUE

\* The reader goroutine handles one "message" frame of the broker: parse,
\* hand a thread-correlated message to the pending Request, else look up the
\* handler, ack (auto-ack) and start the handler goroutine.
Deliver(p) ==
    /\ ~crashed
    /\ conn = "open"
    /\ readerAtRead
    /\ joinReply.status = "ok"
    /\ nInbound < MaxInbound
    /\ nInbound' = nInbound + 1
    /\ LET parsed == parseDIDComm(p)
           m == parsed.msg
           owner == Load(pending, m.thid)
           found == lookup(registry, m.type)
       IN IF parsed.err # ""
          THEN /\ errs' = Append(errs, SDKError("ErrParseFailure", NoMsg, p, parsed.err))
               /\ UNCHANGED <<pending, respCh, tasks, crashed, refCounter, wire, rq>>
          ELSE IF m.thid # "" /\ owner # 0
          THEN /\ pending' = Delete(pending, m.thid)
               /\ respCh' = IF respCh[owner] = <<>>
                            THEN [respCh EXCEPT ![owner] = <<m>>] ELSE respCh
               /\ rq' = IF respCh[owner] = <<>> /\ rq[owner].ctx = "live"
                        THEN [rq EXCEPT ![owner].early = TRUE] ELSE rq
               /\ UNCHANGED <<errs, tasks, crashed, refCounter, wire>>
          ELSE IF ~found.ok
          THEN /\ errs' = Append(errs, SDKError("ErrNoHandler", m, NoRaw, ""))
               /\ UNCHANGED <<pending, respCh, tasks, crashed, refCounter, wire, rq>>
          ELSE IF autoAck(found.entry) /\ transport = "nil"
          THEN /\ crashed' = TRUE
               /\ UNCHANGED <<pending, respCh, tasks, errs, refCounter, wire, rq>>
          ELSE /\ IF autoAck(found.entry)
                  THEN chSend("ack", NoMsg, <<m.id>>, "reader")
                  ELSE UNCHANGED <<refCounter, wire>>
               /\ tasks' = Append(tasks, Task(m, found.entry))
               /\ UNCHANGED <<pending, respCh, errs, crashed, rq>>
    /\ UNCHANGED <<lifeVars, conn, chDone, joinRef, joinReply, assignedDIDVal, topic,
                   hbRunning, callVars>>
    /\ UNCHANGED <<rdVars, auxVars>>

\* ------------------------------------------------------- Client.runHandler
\* An auto-fill that sets the recipients without looking at m's originator.
autoFillAnyFrom(resp, m) ==
    [resp EXCEPT !.from = IF resp.from = "" THEN agentDID ELSE resp.from,
                 !.to = IF Len(resp.to) = 0 THEN <<m.from>> ELSE resp.to,
                 !.thid = IF resp.thid = "" /\ m.thid # "" THEN m.thid
                          ELSE IF resp.thid = "" THEN m.id ELSE resp.thid]

\* The auto-fill of the response a handler returned for inbound message m.
autoFill(resp, m) ==
    [resp EXCEPT !.from = IF resp.from = "" THEN agentDID ELSE resp.from,
                 !.to = IF Len(resp.to) = 0 /\ m.from # "" THEN <<m.from>> ELSE resp.to,
                 !.thid = IF resp.thid = "" /\ m.thid # "" THEN m.thid
                          ELSE IF resp.thid = "" THEN m.id ELSE resp.thid]

\* A report bound to the original's thread-id only, without the id fallback.
problemReportNoFallback(original, comment) ==
    Msg("", PRType, "", <<original.from>>, original.thid, "",
        Body("object", PRCode, comment), NilBody)

\* Client.sendProblemReport: the report built for a handler error.
problemReport(original, comment) ==
    Msg("", PRType, "", <<original.from>>,
        IF original.thid = "" THEN original.id ELSE original.thid, "",
        Body("object", PRCode, comment), NilBody)

\* Client.sendMessage for a handler goroutine: the filled message, its
\* encoding and the error sendMessage returns.
sendMessage(m0, site) ==
    LET m == [m0 EXCEPT !.id = IF m0.id = "" THEN generateID(site) ELSE m0.id,
                        !.from = IF m0.from = "" THEN agentDID ELSE m0.from]
        enc == marshalDIDComm(m)
    IN [msg |-> m, enc |-> enc, err |-> IF enc.err # "" THEN enc.err ELSE writeErr]

\* What each handler function returns for a message, as (resp, err): the
\* reply handlers an envelope with none, all or some of from, to and
\* thread-id set, or one whose body cannot be encoded; "fail" an error;
\* "sink" (nil, nil); "panic" does not return, it panics.
HandlerErr == "database unavailable"
Reply(from, to, thid, body) == Msg("", RespType, from, to, thid, "", body, NilBody)
handlerResult(fn) ==
    CASE fn = "reply-bare" -> [ret |-> "resp", resp |-> Reply("", <<>>, "", EmptyObj)]
      [] fn = "reply-full" -> [ret |-> "resp",
                               resp |-> Reply("did:other", <<"did:third">>, "thid-h", EmptyObj)]
      [] fn = "reply-from" -> [ret |-> "resp", resp |-> Reply("did:other", <<>>, "", EmptyObj)]
      [] fn = "reply-to-thid" -> [ret |-> "resp",
                                  resp |-> Reply("", <<"did:third">>, "thid-h", EmptyObj)]
      [] fn = "reply-unencodable" -> [ret |-> "resp", resp |-> Reply("", <<>>, "", BadValue)]
      [] fn = "fail" -> [ret |-> "err", resp |-> NoMsg]
      [] fn = "panic" -> [ret |-> "panic", resp |-> NoMsg]
      [] OTHER -> [ret |-> "nil", resp |-> NoMsg]

\* What runHandler hands to sendMessage for what the handler returned: the
\* problem report for an error, the auto-filled response for an envelope.
runHandlerOut(h, m) ==
    IF h.ret = "err" THEN problemReport(m, HandlerErr) ELSE autoFill(h.resp, m)

\* The handler of task k returns and runHandler sends what it asks for.
\* sendMessage dereferences c.transport: while that is still nil the handler
\* goroutine panics.  runHandler has no recover: a panic of the handler, as
\* one of runHandler itself, ends the process.
HandlerReturn(k) ==
    /\ ~crashed
    /\ k \in DOMAIN tasks
    /\ tasks[k].st = "running"
    /\ LET t == tasks[k]
           site == "task-" \o ToString(k)
           h == handlerResult(t.fn)
           sm == sendMessage(runHandlerOut(h, t.msg), site)
       IN IF h.ret = "nil"
          THEN /\ tasks' = [tasks EXCEPT ![k].st = "done", ![k].ret = "nil"]
               /\ UNCHANGED <<refCounter, wire, crashed>>
          ELSE IF h.ret = "panic" \/ (sm.enc.err = "" /\ transport = "nil")
          THEN /\ tasks' = [tasks EXCEPT ![k].st = "panicked", ![k].ret = h.ret,
                                         ![k].resp = h.resp]
               /\ crashed' = TRUE
               /\ UNCHANGED <<refCounter, wire>>
          ELSE /\ tasks' = [tasks EXCEPT ![k].st = "done", ![k].ret = h.ret,
                                         ![k].resp = h.resp, ![k].sendErr = sm.err]
               /\ IF sm.enc.err = ""
                  THEN chSend("message", sm.enc.env, <<>>, site)
                  ELSE UNCHANGED <<refCounter, wire>>
               /\ UNCHANGED crashed
    /\ UNCHANGED <<lifeVars, conn, chDone, joinRef, joinReply, assignedDIDVal, topic,
                   hbRunning, callVars, pending, reqVars, nInbound, errs>>
    /\ UNCHANGED <<rdVars, auxVars>>

\* Message.Ack called by the application on the message of task k: the
\* closure armed for a manual-ack handler sends an ack through c.transport;
\* for an auto-ack handler no closure is armed and the call does nothing.
HandlerAck(k) ==
    /\ ~crashed
    /\ k \in DOMAIN tasks
    /\ tasks[k].st # "panicked"
    /\ tasks[k].ackCalls < MaxAckCalls
    /\ tasks' = [tasks EXCEPT ![k].ackCalls = @ + 1]
    /\ IF ~tasks[k].manualAck
       THEN UNCHANGED <<refCounter, wire, crashed>>
       ELSE IF transport = "nil"
       THEN /\ crashed' = TRUE
            /\ UNCHANGED <<refCounter, wire>>
       ELSE /\ chSend("ack", NoMsg, <<tasks[k].msg.id>>, "ack-" \o ToString(k))
            /\ UNCHANGED crashed
    /\ UNCHANGED <<lifeVars, conn, chDone, joinRef, joinReply, assignedDIDVal, topic,
                   hbRunning, callVars, pending, reqVars, nInbound, errs, rdVars, auxVars>>

\* ------------------------------------------------------------------ backoff
newBackoff(initial, max) == [initial |-> initial, max |-> max, current |-> initial]

\* A next that doubles the delay without the cap.
backoffNextNoCap(b) ==
    [b |-> [b EXCEPT !.current = b.current * 2],
     d |-> b.current]

\* backoff.next: the delay returned (d) and the backoff afterwards (b).
\* time.Duration is an int64 of nanoseconds; 2 * current stays far inside it
\* for every max below 2^62 ns, so the doubling is modelled without wrap.
backoffNext(b) ==
    [b |-> [b EXCEPT !.current = IF b.current * 2 > b.max THEN b.max ELSE b.current * 2],
     d |-> IF b.current > b.max THEN b.max ELSE b.current]

\* backoff.reset
backoffReset(b) == [b EXCEPT !.current = b.initial]

BackoffNext ==
    /\ Len(boLog) < MaxBackoffCalls
    /\ bo' = backoffNext(bo).b
    /\ boLog' = Append(boLog, [op |-> "next", d |-> backoffNext(bo).d])
    /\ UNCHANGED <<sessVars, rdVars, wrVars>>

BackoffReset ==
    /\ Len(boLog) < MaxBackoffCalls
    /\ bo' = backoffReset(bo)
    /\ boLog' = Append(boLog, [op |-> "reset", d |-> 0])
    /\ UNCHANGED <<sessVars, rdVars, wrVars>>

\* -------------------------------------------------------------------- Init
Init ==
    /\ cfgDID \in ConfigDIDs
    /\ connected = FALSE
    /\ closed = FALSE
    /\ transport = "nil"
    /\ agentDID = cfgDID
    /\ registry = [t \in MsgTypes |-> NoEntry]
    /\ pending = <<>>
    /\ conn = "nil"
    /\ chDone = FALSE
    /\ refCounter = 0
    /\ joinRef = 0
    /\ joinReply = NoJoinCh
    /\ assignedDIDVal = ""
    /\ topic = channelTopic(cfgDID)
    /\ hbRunning = FALSE
    /\ wire = <<>>
    /\ cpc = "idle"
    /\ cres = ""
    /\ cprotocols = {}
    /\ nConnects = 0
    /\ hcall = [type |-> <<>>, fn |-> "", manualAck |-> FALSE, err |-> ""]
    /\ nHandles = 0
    /\ rq = [r \in Reqs |-> IdleCall]
    /\ respCh = [r \in Reqs |-> <<>>]
    /\ nInbound = 0
    /\ tasks = <<>>
    /\ errs = <<>>
    /\ crashed = FALSE
    /\ reader = [c \in 1..MaxConnects |-> "none"]
    /\ disconnects = <<>>
    /\ nCloses = 0
    /\ closeRes = ""
    /\ bo = newBackoff(1, 30)
    /\ chMu = ""
    /\ wr = [w \in Writers |-> IdleWriter]
    /\ boLog = <<>>

ConnectSteps ==
    \/ ConnBegin
    \/ \E ok \in BOOLEAN : ConnDial(ok)
    \/ \E reply \in JoinReplies : BrokerJoinReply(reply)
    \/ ConnJoined
    \/ ConnCtxDone
    \/ ConnCommit

\* The session lifecycle: Handle, Connect and Close calls in any interleaving.
Next ==
    \/ \E t \in {ReqType, PRType}, fn \in {"fail", "sink"}, manual \in BOOLEAN :
          Handle(t, fn, manual)
    \/ ConnectSteps
    \/ Close

Spec == Init /\ [][Next]_vars

\* The (initial, max) pairs a backoff is built with, in seconds: the pair of
\* the reconnect schedule, others with initial below, at and above max.
BackoffConfigs == {<<1, 30>>, <<2, 30>>, <<3, 5>>, <<1, 1>>, <<5, 3>>}

\* A backoff and the calls made on it.
NextBackoff == BackoffNext \/ BackoffReset

InitBackoff ==
    /\ cfgDID = ""
    /\ connected = FALSE
    /\ closed = FALSE
    /\ transport = "nil"
    /\ agentDID = cfgDID
    /\ registry = [t \in MsgTypes |-> NoEntry]
    /\ pending = <<>>
    /\ conn = "nil"
    /\ chDone = FALSE
    /\ refCounter = 0
    /\ joinRef = 0
    /\ joinReply = NoJoinCh
    /\ assignedDIDVal = ""
    /\ topic = channelTopic(cfgDID)
    /\ hbRunning = FALSE
    /\ wire = <<>>
    /\ cpc = "idle"
    /\ cres = ""
    /\ cprotocols = {}
    /\ nConnects = 0
    /\ hcall = [type |-> <<>>, fn |-> "", manualAck |-> FALSE, err |-> ""]
    /\ nHandles = 0
    /\ rq = [r \in Reqs |-> IdleCall]
    /\ respCh = [r \in Reqs |-> <<>>]
    /\ nInbound = 0
    /\ tasks = <<>>
    /\ errs = <<>>
    /\ crashed = FALSE
    /\ reader = [c \in 1..MaxConnects |-> "none"]
    /\ disconnects = <<>>
    /\ nCloses = 0
    /\ closeRes = ""
    /\ bo \in {newBackoff(cfg[1], cfg[2]) : cfg \in BackoffConfigs}
    /\ chMu = ""
    /\ wr = [w \in Writers |-> IdleWriter]
    /\ boLog = <<>>

SpecBackoff == InitBackoff /\ [][NextBackoff]_vars

\* The session with its heartbeat loop: Connect and Close calls, the carrier
\* dropping, the readers and the heartbeat ticker.
NextHeartbeat ==
    \/ ConnectSteps
    \/ Close
    \/ NetDrop
    \/ \E c \in 1..MaxConnects : ReadFail(c)
    \/ Heartbeat

SpecHeartbeat == Init /\ [][NextHeartbeat]_vars

\* The session and its carrier: Connect and Close calls, repeated Close
\* calls, the carrier dropping, the broker's channel events, the readers.
NextCarrier ==
    \/ ConnectSteps
    \/ Close
    \/ CloseAgain
    \/ NetDrop
    \/ \E c \in 1..MaxConnects : ReadFail(c)
    \/ \E ev \in {"phx_error", "phx_close"} : BrokerEvent(ev)

SpecCarrier == Init /\ [][NextCarrier]_vars

\* ------------------------------------------------ callers and the broker
\* What a caller passes: an envelope with id, from and thread-id left empty
\* and no option, or one with all three set (the thread-id to a value both
\* callers may use) and the parent-thread option.
CallerInputs ==
    {[msg |-> Msg("", ReqType, "", <<PeerDID>>, "", "", EmptyObj, NilBody), pthid |-> ""],
     [msg |-> Msg("m-1", ReqType, "did:alias", <<PeerDID>>, "t1", "", EmptyObj, NilBody),
      pthid |-> "pt"]}

\* Thread-ids of the request frames written so far.
sentThids == {wire[i].msg.thid : i \in {j \in DOMAIN wire : wire[j].event = "message"}}

\* The replies the broker may deliver: a response or a problem report in a
\* thread some written request opened; a problem report may lack its body.
ReplyPayloads ==
    {Payload("ok", Msg("reply-id", RespType, PeerDID, <<"did:me">>, t, "", NilBody, EmptyObj)) :
        t \in sentThids}
    \cup {Payload("ok", Msg("report-id", PRType, PeerDID, <<"did:me">>, t, "", NilBody, b)) :
        t \in sentThids, b \in {Body("object", PRCode, "database unavailable"), NilBody}}

\* A session the broker accepts, callers in Send and Request, the broker's
\* replies, Close at any moment.
NextReq ==
    \/ ConnBegin
    \/ ConnDial(TRUE)
    \/ BrokerJoinReply([status |-> "ok", did |-> "", reason |-> ""])
    \/ ConnJoined
    \/ ConnCommit
    \/ Close
    \/ \E r \in Reqs, op \in {"send", "request"}, in \in CallerInputs :
          CallBegin(r, op, in.msg, in.pthid)
    \/ \E r \in Reqs : CallSend(r)
    \/ \E r \in Reqs, case \in {"resp", "ctx"} : CallWait(r, case)
    \/ \E r \in Reqs : CallReturn(r)
    \/ \E r \in Reqs, how \in {"deadline", "canceled"} : CtxEnd(r, how)
    \/ \E p \in ReplyPayloads : Deliver(p)

\* ... with a configured identity.
InitReq == Init /\ cfgDID = "did:me"

SpecReq == InitReq /\ [][NextReq]_vars

\* One session the broker accepts, callers in Request only, the broker
\* answering with responses or not at all, Close at any moment.
NextWait ==
    \/ nConnects = 0 /\ ConnBegin
    \/ ConnDial(TRUE)
    \/ BrokerJoinReply([status |-> "ok", did |-> "", reason |-> ""])
    \/ ConnJoined
    \/ ConnCommit
    \/ Close
    \/ \E r \in Reqs, in \in CallerInputs : connected /\ CallBegin(r, "request", in.msg, in.pthid)
    \/ \E r \in Reqs : CallSend(r)
    \/ \E r \in Reqs, case \in {"resp", "ctx"} : CallWait(r, case)
    \/ \E r \in Reqs : CallReturn(r)
    \/ \E r \in Reqs, how \in {"deadline", "canceled"} : CtxEnd(r, how)
    \/ \E p \in {q \in ReplyPayloads : q.pt.type = RespType} : Deliver(p)

\* A caller's goroutine is scheduled: a Request whose select has a ready case
\* takes one, and a Request that left the select runs its deferred Delete and
\* returns.
SpecWait ==
    /\ InitReq
    /\ [][NextWait]_vars
    /\ \A r \in Reqs : WF_vars(\E case \in {"resp", "ctx"} : CallWait(r, case))
    /\ \A r \in Reqs : WF_vars(CallReturn(r))

\* One session the broker accepts and callers in Send running concurrently,
\* each between nextRef and writeMsg for as long as the scheduler leaves it.
NextSend ==
    \/ nConnects = 0 /\ ConnBegin
    \/ ConnDial(TRUE)
    \/ BrokerJoinReply([status |-> "ok", did |-> "", reason |-> ""])
    \/ ConnJoined
    \/ ConnCommit
    \/ Close
    \/ \E r \in Reqs, in \in CallerInputs : connected /\ CallBegin(r, "send", in.msg, in.pthid)
    \/ \E r \in Reqs : SendNextRef(r)
    \/ \E r \in Reqs : SendWriteMsg(r)

SpecSend == InitReq /\ [][NextSend]_vars

\* One session the broker accepts and, once Connect has returned, the
\* goroutines that write to its carrier, each scheduled at any moment.
NextWriters ==
    \/ nConnects = 0 /\ ConnBegin
    \/ ConnDial(TRUE)
    \/ BrokerJoinReply([status |-> "ok", did |-> "", reason |-> ""])
    \/ ConnJoined
    \/ ConnCommit
    \/ \E w \in Writers : WriterNextRef(w)
    \/ \E w \in Writers : WriterLock(w)
    \/ \E w \in Writers : WriterWrite(w)

SpecWriters == InitReq /\ [][NextWriters]_vars

\* One session the broker accepts, with or without a handler for the
\* response type; callers in Request whose contexts may reach their deadline;
\* the broker answering in a thread some written request opened, at any
\* moment, also after the Request has returned.
NextCorr ==
    \/ \E fn \in {"reply-bare", "sink"} :
          nHandles = 0 /\ cpc = "idle" /\ nConnects = 0 /\ Handle(RespType, fn, FALSE)
    \/ nConnects = 0 /\ ConnBegin
    \/ ConnDial(TRUE)
    \/ BrokerJoinReply([status |-> "ok", did |-> "", reason |-> ""])
    \/ ConnJoined
    \/ ConnCommit
    \/ \E r \in Reqs, in \in CallerInputs : connected /\ CallBegin(r, "request", in.msg, in.pthid)
    \/ \E r \in Reqs : CallSend(r)
    \/ \E r \in Reqs, case \in {"resp", "ctx"} : CallWait(r, case)
    \/ \E r \in Reqs : CallReturn(r)
    \/ \E r \in Reqs : CtxEnd(r, "deadline")
    \/ \E p \in {q \in ReplyPayloads : q.pt.type = RespType} : Deliver(p)
    \/ \E k \in 1..MaxInbound : HandlerReturn(k)

SpecCorr == InitReq /\ [][NextCorr]_vars

\* --------------------------------------------------- inbound and handlers
\* The messages the broker may deliver to a handler: with or without an
\* originator and a thread-id, the n-th delivery carrying id "in-n".
InPayloads ==
    {Payload("ok", Msg("in-" \o ToString(nInbound + 1), ReqType, in[1], <<"did:me">>, in[2], "",
                       NilBody, EmptyObj)) :
        in \in {<<PeerDID, "thid-in">>, <<PeerDID, "">>, <<"", "thid-in">>}}

\* What else the broker may deliver: bytes that are not JSON, JSON without a
\* plaintext object, a message of a type no handler is registered for.
OddPayloads ==
    {Payload("garbage", NoMsg), Payload("no-plaintext", NoMsg),
     Payload("ok", Msg("in-" \o ToString(nInbound + 1), RespType, PeerDID, <<"did:me">>, "", "",
                       NilBody, EmptyObj))}

\* A session with one handler, for the request type, registered before
\* Connect; the broker delivering requests, the handlers returning, Close at
\* any moment.
NextIn ==
    \/ \E fn \in Fns, manual \in BOOLEAN : nHandles = 0 /\ Handle(ReqType, fn, manual)
    \/ ConnBegin
    \/ ConnDial(TRUE)
    \/ \E d \in BrokerDIDs : BrokerJoinReply([status |-> "ok", did |-> d, reason |-> ""])
    \/ ConnJoined
    \/ ConnCommit
    \/ Close
    \/ \E p \in InPayloads : Deliver(p)
    \/ \E k \in 1..MaxInbound : HandlerReturn(k)

SpecIn == Init /\ [][NextIn]_vars

\* One session the broker accepts, with one handler registered before
\* Connect in either ack mode; the broker delivering requests, the
\* application calling Ack on them, the handlers returning, Close at any
\* moment.
NextAck ==
    \/ \E fn \in {"reply-bare", "sink"}, manual \in BOOLEAN :
          nHandles = 0 /\ cpc = "idle" /\ nConnects = 0 /\ Handle(ReqType, fn, manual)
    \/ nConnects = 0 /\ ConnBegin
    \/ ConnDial(TRUE)
    \/ BrokerJoinReply([status |-> "ok", did |-> "", reason |-> ""])
    \/ ConnJoined
    \/ ConnCommit
    \/ Close
    \/ \E p \in {q \in InPayloads : q.pt.from # "" /\ q.pt.thid # ""} : Deliver(p)
    \/ \E k \in 1..MaxInbound : HandlerReturn(k)
    \/ \E k \in 1..MaxInbound : HandlerAck(k)

SpecAck == InitReq /\ [][NextAck]_vars

\* One session the broker accepts, with at most one handler, for the request
\* type; the broker delivering requests, messages of another type and
\* payloads that do not parse; the handlers returning, Close at any moment.
NextSink ==
    \/ \E fn \in {"reply-bare", "sink"}, manual \in BOOLEAN :
          nHandles = 0 /\ cpc = "idle" /\ nConnects = 0 /\ Handle(ReqType, fn, manual)
    \/ nConnects = 0 /\ ConnBegin
    \/ ConnDial(TRUE)
    \/ BrokerJoinReply([status |-> "ok", did |-> "", reason |-> ""])
    \/ ConnJoined
    \/ ConnCommit
    \/ Close
    \/ \E p \in {q \in InPayloads : q.pt.from # "" /\ q.pt.thid # ""} \cup OddPayloads :
          Deliver(p)
    \/ \E k \in 1..MaxInbound : HandlerReturn(k)

SpecSink == InitReq /\ [][NextSink]_vars

\* ------------------------------------------------------------------ claims

\* C5: the only changes of the session state are new -> connected (by a
\* Connect that succeeds) and new / connected -> closed (by Close); a Connect
\* call on a connected client returns ErrAlreadyConnected and one on a closed
\* client returns ErrClientClosed, and neither changes the state, the
\* transport or the identity nor opens a connection.
C5_OnlyLegalTransitions ==
    [][/\ \/ <<connected', closed'>> = <<connected, closed>>
          \/ ~connected /\ ~closed /\ connected' /\ ~closed'
          \/ ~closed /\ closed' /\ ~connected'
       /\ nConnects' # nConnects /\ (connected \/ closed) =>
            /\ cres' = IF connected THEN ErrAlreadyConnected ELSE ErrClientClosed
            /\ UNCHANGED <<connected, closed, transport, agentDID, conn, wire, cpc>>]_vars

\* C6: once a Connect call has succeeded (the transport is set), every Handle
\* call returns an error and leaves the registry as it was.
C6_FrozenAfterConnect ==
    [][transport # "nil" /\ nHandles' # nHandles =>
         hcall'.err # "" /\ registry' = registry]_vars

\* C7: a Handle call for a type that has an entry returns an error and
\* changes nothing; a Handle call that succeeds adds exactly the entry it was
\* given, which lookup then returns; no entry is ever replaced or removed;
\* lookup reports a type absent exactly when nothing was registered for it.
C7_RegisterOnce ==
    [][/\ \A t \in MsgTypes : registry[t] # NoEntry => registry'[t] = registry[t]
       /\ nHandles' = nHandles => registry' = registry
       /\ nHandles' # nHandles =>
            /\ registry[hcall'.type] # NoEntry => hcall'.err # ""
            /\ hcall'.err # "" => registry' = registry
            /\ hcall'.err = "" =>
                 /\ lookup(registry', hcall'.type) =
                      [entry |-> Entry(hcall'.fn, hcall'.manualAck), ok |-> TRUE]
                 /\ \A t \in MsgTypes \ {hcall'.type} : registry'[t] = registry[t]
            /\ \A t \in MsgTypes :
                 ~lookup(registry, t).ok /\ t # hcall'.type => ~lookup(registry', t).ok]_vars

\* C7's case: a second Handle call for a registered type was refused while
\* the client was not connected, and the first entry is still there.
C7_Witness ==
    /\ hcall.err = "already-registered"
    /\ nHandles = 2
    /\ lookup(registry, hcall.type).ok
    /\ lookup(registry, hcall.type).entry # Entry(hcall.fn, hcall.manualAck)

\* The calls that are between the store of their channel and their return.
InFlight(r) == rq[r].op = "request" /\ rq[r].pc \in {"send", "wait", "ret"}
Returned(r) == rq[r].pc = "done"
GotReply(r) == rq[r].res.kind \in {"response", "problem", "parse-problem-error"}

C2_NoSlotAfterReturn ==
    /\ \A r \in Reqs :
         Returned(r) =>
            \/ Load(pending, rq[r].msg.thid) = 0
            \/ LET o == Load(pending, rq[r].msg.thid)
               IN o # r /\ InFlight(o) /\ rq[o].msg.thid = rq[r].msg.thid
    /\ (\A r \in Reqs : ~InFlight(r)) => DOMAIN pending = {}

\* C2's case: all calls have returned, one with a response, one with its
\* context's error, and the table is empty.
C2_Witness ==
    /\ \A r \in Reqs : Returned(r) /\ rq[r].op = "request"
    /\ \E r \in Reqs : rq[r].res.kind = "response"
    /\ \E r \in Reqs : rq[r].res.kind \in {"deadline", "canceled"}
    /\ DOMAIN pending = {}

\* C3: a Request whose context has ended while it waits returns: it does not
\* stay in its select; when no reply is in its channel it returns the
\* context's error (deadline-exceeded or cancelled) and no envelope.
C3_ReturnsWhenContextEnds ==
    /\ \A r \in Reqs : (rq[r].pc = "wait" /\ rq[r].ctx # "live") ~> Returned(r)
    /\ [][\A r \in Reqs :
            rq[r].pc = "wait" /\ rq'[r].pc # "wait" /\ respCh[r] = <<>> =>
               /\ rq[r].ctx \in {"deadline", "canceled"}
               /\ rq'[r].res = Result(rq[r].ctx, NoMsg, "", "")]_vars
    /\ \A r \in Reqs :
          [](Returned(r) /\ rq[r].res.kind \in {"deadline", "canceled"} =>
                rq[r].res = Result(rq[r].ctx, NoMsg, "", ""))

\* C3's case: a Request to which no reply was ever delivered has returned its
\* deadline's error, another its cancellation's.
C3_Witness ==
    /\ nInbound = 0
    /\ \E r \in Reqs : Returned(r) /\ rq[r].res = Result("deadline", NoMsg, "", "")
    /\ \E r \in Reqs : Returned(r) /\ rq[r].res = Result("canceled", NoMsg, "", "")

C8_RejectedWhenNotConnected ==
    [][\A r \in Reqs :
         rq[r].pc = "idle" /\ rq'[r].pc # "idle" /\ (~connected \/ closed) =>
            /\ rq'[r].res.kind = ErrNotConnected
            /\ rq'[r].pc = "done"
            /\ rq'[r].msg = rq'[r].orig
            /\ wire' = wire
            /\ pending' = pending]_vars

\* The step in which the handler of task k returns and runHandler acts on it.
Returns(k) == k \in DOMAIN tasks /\ tasks[k].st = "running" /\ tasks'[k].st # "running"
\* The frame such a step wrote, when it wrote one.
Wrote == Len(wire') = Len(wire) + 1
Written == wire'[Len(wire')]

\* C9 as stated, for a client whose Connect has returned: when a handler
\* returns (resp, nil) exactly one message frame carrying resp is written,
\* when it returns (nil, err) exactly one message frame of the
\* problem-report type, when it returns (nil, nil) none.
C9_ExactlyOneFrame ==
    [][\A k \in 1..MaxInbound :
         Returns(k) /\ transport # "nil" =>
            /\ tasks'[k].ret = "nil" => wire' = wire
            /\ tasks'[k].ret = "resp" =>
                  /\ Wrote /\ Written.event = "message"
                  /\ Written.msg.type = tasks'[k].resp.type
                  /\ Written.msg.bodyRaw = tasks'[k].resp.body
            /\ tasks'[k].ret = "err" =>
                  /\ Wrote /\ Written.event = "message"
                  /\ Written.msg.type = PRType]_vars

\* C9 as amended: a handler's return writes at most one frame; (nil, nil)
\* writes none; (resp, nil) writes exactly one message frame carrying resp
\* when resp's body can be encoded, the client holds its transport and the
\* connection is open, and none otherwise; (nil, err) writes exactly one
\* message frame of the problem-report type when the client holds its
\* transport and the connection is open, and none otherwise.
C9_OneFrameWhenSendable ==
    [][\A k \in 1..MaxInbound :
         Returns(k) =>
            /\ wire' = wire \/ Wrote
            /\ \A i \in DOMAIN wire : wire[i].by # "task-" \o ToString(k)
            /\ tasks'[k].ret = "nil" => wire' = wire
            /\ tasks'[k].ret = "resp" =>
                  /\ Wrote <=> /\ tasks'[k].resp.body.k # "unencodable"
                               /\ transport # "nil"
                               /\ conn = "open"
                  /\ Wrote => /\ Written.event = "message"
                              /\ Written.by = "task-" \o ToString(k)
                              /\ Written.msg.type = tasks'[k].resp.type
                              /\ Written.msg.bodyRaw = tasks'[k].resp.body
            /\ tasks'[k].ret = "err" =>
                  /\ Wrote <=> (transport # "nil" /\ conn = "open")
                  /\ Wrote => /\ Written.event = "message"
                              /\ Written.by = "task-" \o ToString(k)
                              /\ Written.msg.type = PRType]_vars

\* C9's case: two handlers have returned on an open connection and the wire
\* holds exactly one message frame of each; or one returned (nil, nil).
C9_Witness ==
    /\ Len(tasks) = 2
    /\ \A k \in DOMAIN tasks : tasks[k].st = "done" /\ tasks[k].sendErr = ""
    /\ tasks[1].ret \in {"resp", "err"}
    /\ \A k \in DOMAIN tasks :
          Cardinality({i \in DOMAIN wire : wire[i].by = "task-" \o ToString(k)}) = 1

\* C10 as stated: the response a handler returned for inbound message m is
\* sent with from = the session identity if the handler left it empty, to =
\* [m.from] if the handler left it empty, thid = m.thid, or m.id when m has no
\* thid, if the handler left it empty, and every field the handler set as set.
C10_RecipientsAlwaysFilled ==
    [][\A k \in 1..MaxInbound :
         Returns(k) /\ tasks'[k].ret = "resp" /\ Wrote =>
            LET resp == tasks'[k].resp
                m == tasks[k].msg
                sent == Written.msg
            IN /\ sent.from = IF resp.from = "" THEN agentDID ELSE resp.from
               /\ sent.to = IF resp.to = <<>> THEN <<m.from>> ELSE resp.to
               /\ sent.thid = IF resp.thid # "" THEN resp.thid
                              ELSE IF m.thid # "" THEN m.thid ELSE m.id]_vars

\* C10 as amended: ... to = [m.from] if the handler left it empty and m has
\* an originator, and empty if the handler left it empty and m has none; the
\* rest as stated.
C10_AutoFill ==
    [][\A k \in 1..MaxInbound :
         Returns(k) /\ tasks'[k].ret = "resp" /\ Wrote =>
            LET resp == tasks'[k].resp
                m == tasks[k].msg
                sent == Written.msg
            IN /\ sent.from = IF resp.from = "" THEN agentDID ELSE resp.from
               /\ sent.to = IF resp.to # <<>> THEN resp.to
                            ELSE IF m.from # "" THEN <<m.from>> ELSE <<>>
               /\ sent.thid = IF resp.thid # "" THEN resp.thid
                              ELSE IF m.thid # "" THEN m.thid ELSE m.id]_vars

\* C10's case: a response the handler left bare was sent for a message
\* without thread-id, filled with the identity the broker assigned, the
\* message's originator and the message's id.
C10_Witness ==
    \E i \in DOMAIN wire :
        /\ wire[i].by = "task-1"
        /\ tasks[1].fn = "reply-bare"
        /\ tasks[1].msg.thid = ""
        /\ wire[i].msg.from = "did:eph"
        /\ wire[i].msg.to = <<PeerDID>>
        /\ wire[i].msg.thid = tasks[1].msg.id

\* C11: the problem report sent when a handler returns an error for inbound
\* message m has the problem-report type, recipient m.from, originator the
\* session identity, thread-id m.thid, or m.id when m has no thread-id, and
\* the body {code: e.p.xfer.cant-process, comment: the handler's error string}.
C11_ProblemReportFields ==
    [][\A k \in 1..MaxInbound :
         Returns(k) /\ tasks'[k].ret = "err" /\ Wrote =>
            LET m == tasks[k].msg
                sent == Written.msg
            IN /\ Written.event = "message"
               /\ sent.type = PRType
               /\ sent.to = <<m.from>>
               /\ sent.from = agentDID
               /\ sent.thid = IF m.thid # "" THEN m.thid ELSE m.id
               /\ sent.thid # ""
               /\ sent.pthid = ""
               /\ sent.bodyRaw = Body("object", PRCode, HandlerErr)]_vars

\* C11's case: the report for a message without thread-id is on the wire,
\* bound to the message's id and sent under the broker-assigned identity.
C11_Witness ==
    \E i \in DOMAIN wire :
        /\ wire[i].by = "task-1"
        /\ tasks[1].ret = "err"
        /\ tasks[1].msg.thid = ""
        /\ wire[i].msg.type = PRType
        /\ wire[i].msg.thid = tasks[1].msg.id
        /\ wire[i].msg.from = "did:eph"
        /\ wire[i].msg.to = <<PeerDID>>

\* C12: every inbound message routed to a handler registered in the auto-ack
\* mode starts the handler's task and causes exactly one ack frame carrying
\* the message's id, written before the handler runs, hence before any frame
\* the handler's task writes.
C12_AckBeforeHandler ==
    [][nInbound' # nInbound /\ errs' = errs /\ pending' = pending
         /\ lookup(registry, ReqType).ok /\ ~lookup(registry, ReqType).entry.manualAck =>
            /\ ~crashed'
            /\ Len(tasks') = Len(tasks) + 1
            /\ Wrote
            /\ Written.event = "ack"
            /\ Written.ids = <<tasks'[Len(tasks')].msg.id>>
            /\ tasks'[Len(tasks')].st = "running"
            /\ \A i \in DOMAIN wire :
                  /\ wire[i].by # "task-" \o ToString(Len(tasks'))
                  /\ wire[i].event = "ack" => wire[i].ids # Written.ids]_vars

\* The ack frames on the wire that carry the id of task k's message.
AcksFor(k) == {i \in DOMAIN wire : wire[i].event = "ack" /\ wire[i].ids = <<tasks[k].msg.id>>}

\* C13: for a handler registered with manual-ack, an ack frame for an inbound
\* message is on the wire only if the application called Ack on that
\* message: none while, and none after, the handler ran without calling Ack;
\* every ack frame there is was written by an Ack call.
C13_NoAckUnlessCalled ==
    /\ \A k \in DOMAIN tasks :
          tasks[k].manualAck =>
             /\ tasks[k].ackCalls = 0 => AcksFor(k) = {}
             /\ \A i \in AcksFor(k) : wire[i].by = "ack-" \o ToString(k)
    /\ \A i \in DOMAIN wire :
          wire[i].event = "ack" => \E k \in DOMAIN tasks : i \in AcksFor(k)

\* C13's case: a manual-ack handler has returned a response for one message
\* without an Ack call, and no ack frame for it is on the wire, while the
\* ack of another message, on which Ack was called, is.
C13_Witness ==
    /\ Len(tasks) = 2
    /\ tasks[1].manualAck /\ tasks[1].st = "done" /\ tasks[1].ackCalls = 0
    /\ \E i \in DOMAIN wire : wire[i].by = "task-1" /\ wire[i].event = "message"
    /\ AcksFor(1) = {}
    /\ tasks[2].ackCalls = 1 /\ AcksFor(2) # {}

\* The inbound path is as it was: the reader runs, the process has not faulted.
PipelineRuns == ~crashed' /\ conn' = conn /\ chDone' = chDone /\ reader' = reader

\* C14: the delivery of a message whose type has no registered handler and
\* whose thread-id matches no correlation slot reports exactly one
\* ErrNoHandler record with the message's id, type and originator; it writes
\* no frame (no ack) and starts no handler.
C14_NoHandlerRecord ==
    [][\A p \in InPayloads \cup OddPayloads :
         /\ Deliver(p)
         /\ p.k = "ok"
         /\ (p.pt.type \in DOMAIN registry => registry[p.pt.type] = NoEntry)
         /\ Load(pending, p.pt.thid) = 0
         => /\ Len(errs') = Len(errs) + 1
            /\ SubSeq(errs', 1, Len(errs)) = errs
            /\ errs'[Len(errs')].kind = "ErrNoHandler"
            /\ errs'[Len(errs')].id = p.pt.id
            /\ errs'[Len(errs')].type = p.pt.type
            /\ errs'[Len(errs')].from = p.pt.from
            /\ wire' = wire
            /\ tasks' = tasks
            /\ PipelineRuns]_vars

\* C14's case: with a handler registered for the request type, a message of
\* another type was reported to the sink, and a request was handled.
C14_Witness ==
    /\ registry[ReqType] # NoEntry
    /\ Len(errs) = 1
    /\ errs[1].kind = "ErrNoHandler" /\ errs[1].type = RespType /\ errs[1].from = PeerDID
    /\ errs[1].id # ""
    /\ Len(tasks) = 1
    /\ \A i \in DOMAIN wire : wire[i].event = "ack" => wire[i].ids # <<errs[1].id>>

\* C15: the delivery of a payload that does not parse - bytes that are not
\* JSON, or JSON without a plaintext object - reports exactly one
\* ErrParseFailure record with the payload's bytes and the parse error; it
\* writes no frame, starts no handler, touches no correlation slot, and the
\* reader goes on to the next frame.
C15_ParseFailureRecord ==
    [][\A p \in InPayloads \cup OddPayloads :
         Deliver(p) /\ p.k # "ok"
         => /\ Len(errs') = Len(errs) + 1
            /\ SubSeq(errs', 1, Len(errs)) = errs
            /\ errs'[Len(errs')].kind = "ErrParseFailure"
            /\ errs'[Len(errs')].raw = p
            /\ errs'[Len(errs')].cause # ""
            /\ wire' = wire
            /\ tasks' = tasks
            /\ pending' = pending /\ respCh' = respCh
            /\ PipelineRuns]_vars

\* C15's case: a payload that does not parse was reported, and the message
\* delivered after it was routed to its handler.
C15_Witness ==
    /\ Len(errs) = 1
    /\ errs[1].kind = "ErrParseFailure" /\ errs[1].raw.k = "no-plaintext"
    /\ nInbound = 2
    /\ Len(tasks) = 1 /\ tasks[1].msg.id = "in-2"

\* C16: when a handler panics, exactly one ErrHandlerPanic record with the
\* message's id and type is reported and the process keeps running.
C16_PanicRecorded ==
    \A k \in DOMAIN tasks :
       tasks[k].st = "panicked" /\ tasks[k].ret = "panic" =>
          /\ ~crashed
          /\ Cardinality({i \in DOMAIN errs :
                             /\ errs[i].kind = "ErrHandlerPanic"
                             /\ errs[i].id = tasks[k].msg.id
                             /\ errs[i].type = tasks[k].msg.type}) = 1

\* C17: whatever the number of concurrent senders, the refs of the frames of
\* one channel are strictly increasing in the order the frames were written.
C17_RefsIncreasing ==
    \A i, j \in DOMAIN wire :
       i < j /\ wire[i].ch = wire[j].ch => wire[i].ref < wire[j].ref

\* C18: DID() is the configured identity when one was configured, whatever
\* the broker's join reply carries; without a configured identity it is the
\* broker-assigned one once a Connect has succeeded, and the empty string
\* while none has; and once a Connect has succeeded it never changes.
C18_Identity ==
    /\ [](/\ cfgDID # "" => agentDID = cfgDID
          /\ cfgDID = "" /\ transport # "nil" => agentDID = assignedDIDVal
          /\ cfgDID = "" /\ transport = "nil" /\ cpc # "commit" => agentDID = "")
    /\ [][transport # "nil" => agentDID' = agentDID]_vars

\* C18's case: a Connect succeeded for a client with a configured identity
\* while the broker's join reply carried another one.
C18_Witness ==
    /\ cfgDID = "did:me"
    /\ transport # "nil" /\ cres = "nil"
    /\ assignedDIDVal = "did:eph"
    /\ agentDID = "did:me"

\* C18's second case: without a configured identity the client took the one
\* the broker assigned, on its second Connect after a rejected first.
C18_WitnessAssigned ==
    /\ cfgDID = "" /\ nConnects = 2
    /\ transport # "nil" /\ connected
    /\ agentDID = "did:eph"

\* C19: a Close call on a closed client returns nil and has no further
\* effect: the client stays closed, no frame (no second leave) is written,
\* the carrier and the done flag are as they were, and the readers and the
\* disconnect callback are not touched.
C19_CloseIdempotent ==
    [][closed /\ nCloses' # nCloses =>
          /\ closeRes' = "nil"
          /\ closed' /\ connected' = connected
          /\ wire' = wire
          /\ conn' = conn /\ chDone' = chDone /\ refCounter' = refCounter
          /\ transport' = transport /\ hbRunning' = hbRunning
          /\ reader' = reader /\ disconnects' = disconnects]_vars

\* C19's case: a connected client was closed, writing its leave frame, and
\* Close was called twice more; the wire holds that one leave frame.
C19_Witness ==
    /\ closed /\ nCloses = 3 /\ closeRes = "nil"
    /\ conn = "closed" /\ chDone
    /\ Cardinality({i \in DOMAIN wire : wire[i].event = "phx_leave"}) = 1

\* C20: the disconnect callback is invoked only for an unexpected drop: by
\* the reader whose read failed because the carrier dropped, or for a channel
\* event of the broker, in both cases with the done flag unset; never by a
\* Close call, and never by a reader whose read failed on a carrier the
\* client itself tore down.
C20_OnlyUnexpectedDrops ==
    [][disconnects' # disconnects =>
          /\ nCloses' = nCloses
          /\ ~chDone
          /\ Len(disconnects') = Len(disconnects) + 1
          /\ LET n == disconnects'[Len(disconnects')]
             IN /\ n.ch = curCh
                /\ n.err = "read-error" => conn = "dropped"]_vars

\* C20, the part about Close: no Close call invokes the callback, and a
\* reader whose read fails once Close has marked the channel done returns
\* without invoking it.
C20_SilentAfterClose ==
    [][/\ nCloses' # nCloses => disconnects' = disconnects
       /\ \A c \in 1..MaxConnects :
             reader[c] = "running" /\ reader'[c] = "exited" /\ c = curCh /\ chDone
             => disconnects' = disconnects]_vars

\* C21: when the broker answers the join with a status other than ok,
\* Connect returns a connection error whose reason is the broker's
\* response.reason when it gave one; the client is not connected, has no
\* transport, and no heartbeat task runs.
C21_JoinRejected ==
    [][ConnJoined /\ joinReply.status # "ok" =>
          /\ cpc' = "idle"
          /\ joinReply.reason # "" => cres' = "ConnectionError: " \o joinReply.reason
          /\ joinReply.reason = "" => cres' = "ConnectionError: join rejected: " \o joinReply.status
          /\ ~connected' /\ transport' = "nil"
          /\ ~hbRunning'
          /\ agentDID' = agentDID]_vars

\* C21's case: the broker rejected the join with a reason and Connect
\* returned it.
C21_Witness ==
    /\ cpc = "idle"
    /\ joinReply.status = "error" /\ joinReply.reason = "protocols_already_bound"
    /\ cres = "ConnectionError: protocols_already_bound"
    /\ ~connected /\ ~hbRunning /\ conn = "closed"

\* The number of next calls since the last reset (or since construction) up
\* to and including call i of the log.
SinceReset(i) ==
    LET resets == {j \in 1..i : boLog[j].op = "reset"}
        last == IF resets = {} THEN 0 ELSE CHOOSE j \in resets : \A k \in resets : k <= j
    IN i - last

\* The schedule for initial 1s and cap 30s: 1, 2, 4, 8, 16, 30 and 30 ever after.
Schedule(n) == IF n <= 5 THEN <<1, 2, 4, 8, 16>>[n] ELSE 30

\* C22: with initial 1s and cap 30s the n-th next call after construction
\* or after a reset returns 1, 2, 4, 8, 16, 30, 30 and 30 ever after; for
\* every backoff no call returns more than the cap, and the first call after
\* construction or a reset returns the initial delay (clamped at the cap).
C22_Backoff ==
    \A i \in DOMAIN boLog :
       boLog[i].op = "next" =>
          /\ boLog[i].d <= bo.max
          /\ SinceReset(i) = 1 =>
                boLog[i].d = IF bo.initial <= bo.max THEN bo.initial ELSE bo.max
          /\ bo.initial = 1 /\ bo.max = 30 => boLog[i].d = Schedule(SinceReset(i))

\* C22's case: seven calls returned 1, 2, 4, 8, 16, 30, 30; then a reset,
\* and the call after it returned 1.
C22_Witness ==
    /\ bo.initial = 1 /\ bo.max = 30
    /\ Len(boLog) = 9
    /\ [i \in 1..7 |-> boLog[i].d] = <<1, 2, 4, 8, 16, 30, 30>>
    /\ \A i \in 1..7 : boLog[i].op = "next"
    /\ boLog[8].op = "reset"
    /\ boLog[9] = [op |-> "next", d |-> 1]

\* The join frame of the channel of the latest Connect call.
JoinFrames == {i \in DOMAIN wire : wire[i].event = "phx_join" /\ wire[i].ch = nConnects}

\* C23: from the moment the join frame of a session is sent, while the
\* session lasts (Connect waiting for the reply or returning, or the client
\* connected, and not closed), the protocol derived from every handler in
\* the registry is in the protocol list of that join frame.
C23_HandlersAdvertised ==
    ~closed /\ (cpc \in {"join", "commit"} \/ connected) =>
       \A i \in JoinFrames : protocols(registry) \subseteq wire[i].protocols

\* The broker's replies of the response type, in any thread.
CorrPayloads == {q \in ReplyPayloads : q.pt.type = RespType}

\* C24: an inbound message with a non-empty thread-id for which a
\* correlation slot exists is put into that slot's channel and the slot is
\* removed; no handler task starts for it, no ack is written and nothing is
\* reported, also when a handler is registered for its type.
C24_CorrelationFirst ==
    [][\A p \in CorrPayloads :
         /\ Deliver(p)
         /\ p.pt.thid # ""
         /\ p.pt.thid \in DOMAIN pending
         => /\ respCh'[pending[p.pt.thid]] = <<parseDIDComm(p).msg>>
            /\ p.pt.thid \notin DOMAIN pending'
            /\ tasks' = tasks
            /\ wire' = wire
            /\ errs' = errs]_vars

\* C24's case: with a handler registered for the response type, the one
\* message delivered went to a waiting Request and started no handler.
C24_Witness ==
    /\ registry[RespType] # NoEntry
    /\ nInbound = 1
    /\ \E r \in Reqs : rq[r].pc = "wait" /\ respCh[r] # <<>> /\ Head(respCh[r]).type = RespType
    /\ tasks = <<>> /\ errs = <<>>

\* Request calls that returned their context's error.
TimedOut == {r \in Reqs : rq[r].pc = "done" /\ rq[r].op = "request"
                            /\ rq[r].res.kind \in {"deadline", "canceled"}}

\* C25: a reply in the thread of a Request that has returned its context's
\* error, no other Request being in flight in that thread, reaches no
\* Request call: it starts the handler registered for its type, or without
\* one is reported as ErrNoHandler.
C25_LateReplyRouted ==
    [][\A p \in CorrPayloads :
         /\ Deliver(p)
         /\ \E r \in TimedOut : rq[r].msg.thid = p.pt.thid
         /\ \A r \in Reqs : rq[r].msg.thid = p.pt.thid => rq[r].pc \in {"idle", "done"}
         => /\ respCh' = respCh /\ rq' = rq /\ pending' = pending
            /\ IF registry[RespType] # NoEntry
               THEN /\ Len(tasks') = Len(tasks) + 1
                    /\ tasks'[Len(tasks')].msg = parseDIDComm(p).msg
                    /\ tasks'[Len(tasks')].st = "running"
                    /\ errs' = errs
               ELSE /\ tasks' = tasks
                    /\ Len(errs') = Len(errs) + 1
                    /\ errs'[Len(errs')].kind = "ErrNoHandler"
                    /\ errs'[Len(errs')].id = p.pt.id]_vars

\* C25's case: a Request returned its deadline error with no reply
\* buffered, and the reply delivered afterwards started the handler.
C25_Witness ==
    /\ \E r \in TimedOut : respCh[r] = <<>> /\ Len(tasks) = 1
                            /\ tasks[1].msg.thid = rq[r].msg.thid
    /\ \A r \in Reqs : rq[r].pc \in {"idle", "done"}
    /\ nInbound = 1

\* Request calls in flight in thread T: the slot installed, the call neither
\* delivered to nor returned.
InFlightIn(T) == {r \in Reqs : /\ rq[r].op = "request"
                               /\ rq[r].pc \in {"send", "wait", "ret"}
                               /\ rq[r].msg.thid = T
                               /\ respCh[r] = <<>>
                               /\ rq[r].res.kind \notin {"response", "problem",
                                                         "parse-problem-error"}}

\* Thread identifiers in use: minted ones and the one callers supply.
ThreadIds == DOMAIN pending \cup {rq[r].msg.thid : r \in Reqs}

\* C26: for every thread identifier T the correlation table holds a slot for
\* T exactly when exactly one Request call is in flight in T.
C26_SlotIffOneInFlight ==
    \A T \in ThreadIds \ {""} :
       T \in DOMAIN pending <=> Cardinality(InFlightIn(T)) = 1

\* C27: closed is absorbing: in no reachable state is the client both closed
\* and connected.
C27_ClosedAbsorbing == ~(closed /\ connected)

\* The goroutines inside conn.WriteMessage.
Writing == {w \in Writers : wr[w].pc = "writing"}

\* C28: at every instant at most one goroutine is writing a frame to the
\* carrier, and it is the one that holds c.mu.
C28_SingleWriter ==
    /\ Cardinality(Writing) <= 1
    /\ \A w \in Writing : chMu = w

\* C28's case: the heartbeat is inside its write while the caller, the
\* reader's ack, a handler task and Close's leave all hold a ref and wait
\* for the lock.
C28_Witness ==
    /\ Writing = {"heartbeat"}
    /\ \A w \in Writers \ {"heartbeat"} : wr[w].pc = "gotRef"
    /\ \E i \in DOMAIN wire : wire[i].event = "phx_join"

\* C29: no two frames written by one channel carry the same ref.
C29_RefsUnique ==
    \A i, j \in DOMAIN wire :
       i # j /\ wire[i].ch = wire[j].ch => wire[i].ref # wire[j].ref

\* C29's case: the join, a message, an ack, a heartbeat and the leave are
\* all on the wire, written in an order other than that of their refs.
C29_Witness ==
    /\ {wire[i].event : i \in DOMAIN wire} =
          {"phx_join", "message", "ack", "heartbeat", "phx_leave"}
    /\ Len(wire) = 6
    /\ \E i, j \in DOMAIN wire : i < j /\ wire[i].ref > wire[j].ref

\* C30: however often Ack is called on a message of a manual-ack handler,
\* at most one ack frame for its id is written.
C30_AckOneShot ==
    \A k \in DOMAIN tasks : tasks[k].manualAck => Cardinality(AcksFor(k)) <= 1

\* C31: an Ack call on a message of a manual-ack handler made after Close
\* writes no frame, reports nothing to the sink and does not fault.
C31_AckAfterClose ==
    [][\A k \in DOMAIN tasks :
         closed /\ tasks[k].manualAck /\ tasks'[k].ackCalls # tasks[k].ackCalls
         => wire' = wire /\ errs' = errs /\ ~crashed']_vars

\* C32: when the write of a handler's response or problem report fails on
\* the carrier, an ErrTransportWrite record for that message is reported to
\* the error sink.
C32_WriteFailureReported ==
    \A k \in DOMAIN tasks :
       tasks[k].st = "done" /\ tasks[k].sendErr = "write-error" =>
          \E i \in DOMAIN errs : errs[i].kind = "ErrTransportWrite"

\* Request calls waiting in their select with nothing buffered.
Waiting == {r \in Reqs : rq[r].op = "request" /\ rq[r].pc = "wait" /\ respCh[r] = <<>>}

\* C33: a Close call neither completes nor cancels a waiting Request: the
\* call, its context, its channel and its slot are as they were; and a
\* Request that waits on a closed client leaves its select only by its own
\* context, returning the context's error, after which its slot is removed.
C33_CloseLeavesRequestsWaiting ==
    [][/\ nCloses' # nCloses =>
            \A r \in Waiting : /\ rq'[r] = rq[r]
                                /\ respCh'[r] = respCh[r]
                                /\ Load(pending', rq[r].msg.thid) = Load(pending, rq[r].msg.thid)
       /\ \A r \in Waiting :
            closed /\ rq'[r].pc # "wait" =>
               /\ rq[r].ctx \in {"deadline", "canceled"}
               /\ rq'[r].pc = "ret"
               /\ rq'[r].res = Result(rq[r].ctx, NoMsg, "", "")
       /\ \A r \in Reqs :
            rq[r].pc = "ret" /\ rq'[r].pc = "done" => rq[r].msg.thid \notin DOMAIN pending']_vars

\* C33's case: a Request that was waiting when Close ran has returned its
\* deadline error and its slot is gone.
C33_Witness ==
    \E r \in Reqs :
       /\ closed /\ chDone
       /\ rq[r].op = "request" /\ rq[r].pc = "done"
       /\ rq[r].res.kind = "deadline"
       /\ rq[r].msg.thid \notin DOMAIN pending
       /\ \E i \in DOMAIN wire : wire[i].event = "phx_leave" /\
             \E j \in 1..(i-1) : wire[j].event = "message" /\ wire[j].by = "call-" \o ToString(r)

\* A handler task has not returned.
Blocked == \E k \in DOMAIN tasks : tasks[k].st = "running"

\* C34: while a handler has not returned, the reader still takes the next
\* inbound message (as long as the carrier is open), and handling it routes
\* it: to a waiting Request, to a new handler task of its own, or to the
\* error sink.
C34_ReaderNotBlocked ==
    /\ [](Blocked /\ ~crashed /\ conn = "open" /\ nInbound < MaxInbound
            => \A p \in InPayloads : ENABLED Deliver(p))
    /\ [][Blocked /\ nInbound' # nInbound =>
            /\ ~crashed'
            /\ \A k \in DOMAIN tasks : tasks'[k] = tasks[k]
            /\ \/ Len(tasks') = Len(tasks) + 1 /\ tasks'[Len(tasks')].st = "running"
               \/ Len(errs') = Len(errs) + 1
               \/ respCh' # respCh]_vars

\* C34's case: the handler of the first message has not returned and the
\* second message has its own handler task, which has returned.
C34_Witness ==
    /\ Len(tasks) = 2
    /\ tasks[1].st = "running"
    /\ tasks[2].st = "done" /\ tasks[2].msg.id = "in-2"

\* The position in the broker's delivery order of the inbound message id.
InSeq(id) == CHOOSE n \in 1..(MaxInbound + 1) : id = "in-" \o ToString(n)

\* The frames in which the reader acknowledged the message of task k.
ReaderAcks(k) == {i \in AcksFor(k) : wire[i].by = "reader"}

\* C35: handler tasks are started in the order the broker delivered their
\* messages, and in auto-ack mode the ack frame of a message is on the wire
\* once its task exists, before the ack frame of any later message.
C35_DispatchInOrder ==
    /\ \A i, j \in DOMAIN tasks :
           i < j => InSeq(tasks[i].msg.id) < InSeq(tasks[j].msg.id)
    /\ \A k \in DOMAIN tasks : ~tasks[k].manualAck => ReaderAcks(k) # {}
    /\ \A i, j \in DOMAIN tasks :
           i < j /\ ~tasks[i].manualAck =>
              \A b \in ReaderAcks(j) : \E a \in ReaderAcks(i) : a < b

\* C35's case: two messages were dispatched in auto-ack mode and both ack
\* frames are on the wire.
C35_Witness ==
    /\ Len(tasks) = 2
    /\ ~tasks[1].manualAck /\ ~tasks[2].manualAck
    /\ tasks[1].msg.id = "in-1" /\ tasks[2].msg.id = "in-2"
    /\ ReaderAcks(1) # {} /\ ReaderAcks(2) # {}

\* C36: a step in which the heartbeat loop ends on a failed write (not a
\* Close and not a new dial) also invokes the disconnect callback.
C36_HeartbeatFailureNotifies ==
    [][hbRunning /\ ~hbRunning' /\ nCloses' = nCloses /\ cpc' = cpc
         => Len(disconnects') = Len(disconnects) + 1]_vars

\* The part of C36 the code keeps: a heartbeat write on a carrier that is
\* not open writes nothing and ends the heartbeat loop.
C36_HeartbeatStopsOnFailure ==
    [][hbRunning /\ refCounter' # refCounter /\ nCloses' = nCloses /\ cpc' = cpc
          /\ conn # "open"
         => ~hbRunning' /\ wire' = wire]_vars

\* The frames of the agent's channel that follow its join.
ChannelFrames == {i \in DOMAIN wire : wire[i].event \in {"message", "ack", "phx_leave"}}

\* C37: every message, ack and leave frame carries the topic
\* plugins:<session identity>, the session identity being the configured
\* identity or else the one the broker assigned.
C37_TopicIsSessionIdentity ==
    \A i \in ChannelFrames : wire[i].topic = "plugins:" \o agentDID

\* What the code keeps of C37: the frames carry the topic of the join
\* frame, formatted from the configured identity alone.
C37_TopicIsJoinTopic ==
    \A i \in ChannelFrames :
       /\ wire[i].topic = "plugins:" \o cfgDID
       /\ \E j \in 1..(i - 1) : wire[j].event = "phx_join" /\ wire[j].topic = wire[i].topic

\* Connect gives up on a join whose reply has not arrived.
JoinTimesOut == cpc = "join" /\ joinReply = EmptyJoinCh /\ cres' = "context-error"

\* C38: when the context ends before the join reply, Connect returns the
\* context's error, the client is neither connected nor closed, no heartbeat
\* loop runs, and the channel's join-reply waiter is gone.
C38_JoinTimeoutCleansUp ==
    [][JoinTimesOut =>
          /\ cpc' = "idle"
          /\ ~connected' /\ closed' = closed /\ transport' = transport
          /\ ~hbRunning'
          /\ joinReply' = NoJoinCh]_vars

\* What the code keeps of C38: everything but the removal of the waiter,
\* which stays in c.pendingJoin of the abandoned channel.
C38_JoinTimeoutKeepsNew ==
    [][JoinTimesOut =>
          /\ cpc' = "idle"
          /\ ~connected' /\ closed' = closed /\ transport' = transport
          /\ ~hbRunning'
          /\ joinReply' = EmptyJoinCh]_vars

\* C39: routing an inbound message that arrived after the join reply never
\* faults: the only fault of the inbound path is a panic of the handler's
\* own code, because the transport reference is set whenever the reader
\* sends an ack or a handler task sends its response or problem report.
C39_RoutingNeverFaults ==
    [][~crashed /\ crashed' =>
          \E k \in DOMAIN tasks : tasks'[k].st = "panicked" /\ tasks'[k].ret = "panic"]_vars

\* The Request calls that took an envelope out of their channel.
Consumed == {r \in Reqs : rq[r].res.kind \in {"response", "problem", "parse-problem-error"}}

\* The envelopes put into the channel of Request r so far.
Received(r) == Len(respCh[r]) + (IF r \in Consumed THEN 1 ELSE 0)

\* C40: the channel of a Request receives at most one envelope; the step
\* that puts an envelope into it writes no frame, starts no handler task and
\* reports nothing; and a later message in the same thread leaves a Request
\* that already received its envelope as it is.
C40_SlotSingleUse ==
    /\ [](\A r \in Reqs : Received(r) <= 1)
    /\ [][\A r \in Reqs :
            /\ respCh'[r] # respCh[r] /\ nInbound' # nInbound
               => /\ Received(r) = 0 /\ Len(respCh'[r]) = 1
                  /\ wire' = wire /\ tasks' = tasks /\ errs' = errs /\ ~crashed'
            /\ Received(r) = 1 /\ nInbound' # nInbound
               => respCh'[r] = respCh[r] /\ rq'[r] = rq[r]]_vars

\* C40's case: the only Request made took its response, and the second
\* message of the same thread went to the handler or to the error sink.
C40_Witness ==
    \E r \in Reqs :
       /\ rq[r].res.kind = "response"
       /\ \A q \in Reqs \ {r} : rq[q].pc = "idle"
       /\ nInbound = 2
       /\ Len(tasks) + Len(errs) = 1
       /\ \A k \in DOMAIN tasks : tasks[k].msg.thid = rq[r].msg.thid

====
